---- MODULE Spec2Model ----
(***************************************************************************)
(* Model of simple-rss: the HTML renderer of src/src/html_render.rs (a     *)
(* recursive walk over the parsed DOM that appends to one output string)   *)
(* and the application of src/simple_rss_lib (App, ItemList, Content,      *)
(* Toast, Help) run by the main loop of src/src/main.rs over the           *)
(* DataLoader of src/src/data/loader.rs.  Strings are sequences of         *)
(* one-character strings, so that trimming, replacing and line splitting   *)
(* are computed the way the code computes them.                            *)
(***************************************************************************)
EXTENDS Integers, Sequences, FiniteSets, TLC

\* Bounds of the model.
MaxNodes == 3   \* nodes of the document body in the exhaustively enumerated inputs
MaxWidth == 2   \* widths the caller asks for: 1..MaxWidth
MaxCalls == 3   \* render calls in one behaviour of SpecRerun
MaxKeys == 2    \* keys pressed in one behaviour of SpecApp
MaxFocusKeys == 3   \* keys pressed in one behaviour of SpecFocus
MaxTicks == 1   \* ticks of the event task in one behaviour of SpecApp
MaxFrame == 13  \* the widest terminal, in columns
MaxQueue == 1   \* events the event task may have waiting in the bus
MaxOps == 4     \* lines and spans one render call of SpecRenderer emits

VARIABLES
    html,       \* the parsed document handed to render
    max_width,  \* the width the caller wants the text wrapped to
    pc,         \* "idle" before the call, "done" after it, "panicked" if it panicked
    out,        \* what the call printed to stdout
    calls,      \* number of render calls made so far
    first_run,  \* <<>>, or <<r>> with r the document, width, end and output of the first call
    renderer    \* <<>>, or <<r>> with r the Renderer state of the call in flight

\* The application
VARIABLES
    focus,            \* App.focus
    prev_focus,       \* App.prev_focus: <<>> (None) or <<f>>
    item_list,        \* App.item_list: focused, list_state, render_cache
    content,          \* App.content: focused, state
    toast,            \* App.toast: state
    help,             \* App.help: open
    data_loader,      \* the DataLoader all clones share: data, version
    event_bus,        \* the events sent and not yet received, oldest first
    tasks,            \* the spawned tasks: the refresh and the item loads in flight,
                      \* with the link of the load spawned last (entered)
    run,              \* where run() of main.rs is
    terminal,         \* what the last draw put on the screen
    overflow_checks   \* whether the build panics on integer overflow (else it wraps)

appvars == <<focus, prev_focus, item_list, content, toast, help, data_loader,
             event_bus, tasks, run, terminal, overflow_checks>>

rendervars == <<html, max_width, pc, out, calls, first_run, renderer>>

vars == <<html, max_width, pc, out, calls, first_run, renderer,
          focus, prev_focus, item_list, content, toast, help, data_loader,
          event_bus, tasks, run, terminal, overflow_checks>>

-----------------------------------------------------------------------------
\* Characters and strings

SP == " "
NL == "\n"
TAB == "\t"
White == {SP, NL, TAB}
Punct == {".", ",", ";"}
\* the character U+0060 (grave accent), which a string literal here cannot hold
BT == "grave"

RECURSIVE trim_start(_)
trim_start(s) ==
    IF s = <<>> THEN <<>>
    ELSE IF Head(s) \in White THEN trim_start(Tail(s)) ELSE s

RECURSIVE trim_end(_)
trim_end(s) ==
    IF s = <<>> THEN <<>>
    ELSE IF s[Len(s)] \in White THEN trim_end(SubSeq(s, 1, Len(s) - 1)) ELSE s

\* str::trim
trim(s) == trim_end(trim_start(s))

\* txt.replace("\n", " ")
replace_newline(s) == [i \in 1..Len(s) |-> IF s[i] = NL THEN SP ELSE s[i]]

DigitChar == <<"0", "1", "2", "3", "4", "5", "6", "7", "8", "9">>

\* format!("{}", idx)
RECURSIVE to_string(_)
to_string(n) ==
    IF n < 10 THEN <<DigitChar[n + 1]>>
    ELSE to_string(n \div 10) \o <<DigitChar[(n % 10) + 1]>>

RECURSIVE spaces(_)
spaces(n) == IF n = 0 THEN <<>> ELSE <<SP>> \o spaces(n - 1)

-----------------------------------------------------------------------------
\* The DOM: every node carries the name of its parent element ("" if none).

Node(kind, name, href, text, kids) ==
    [kind |-> kind, name |-> name, href |-> href, text |-> text,
     parent |-> "",
     children |-> [i \in 1..Len(kids) |->
                     [kids[i] EXCEPT !.parent = IF kind = "Element" THEN name ELSE ""]]]

Text(t) == Node("Text", "", <<>>, t, <<>>)
Comment == Node("Comment", "", <<>>, <<>>, <<>>)
Doctype == Node("Doctype", "", <<>>, <<>>, <<>>)
\* href is <<>> (no attribute) or <<url>>
Elem(name, kids) == Node("Element", name, <<>>, <<>>, kids)
Link(url, kids) == Node("Element", "a", <<url>>, <<>>, kids)

\* The tree Html::parse_document builds around the content of head and body
ParseDocumentWithHead(head, body) ==
    Node("Document", "", <<>>, <<>>,
         <<Elem("html", <<Elem("head", head), Elem("body", body)>>)>>)

ParseDocument(body) == ParseDocumentWithHead(<<>>, body)

\* the children last to first: what node.children() does not yield
children_reversed(node) ==
    [i \in 1..Len(node.children) |-> node.children[Len(node.children) + 1 - i]]

\* node.children(), in document order
children(node) == node.children

-----------------------------------------------------------------------------
\* ContextType, Context, RenderStatus

Inline == [tag |-> "Inline", idx |-> 0]
RequiresSpace == [tag |-> "RequiresSpace", idx |-> 0]
NewParagraph == [tag |-> "NewParagraph", idx |-> 0]
UnorderedList == [tag |-> "UnorderedList", idx |-> 0]
OrderedList(idx) == [tag |-> "OrderedList", idx |-> idx]

precedence(context_type) ==
    CASE context_type.tag = "Inline" -> 0
      [] context_type.tag = "RequiresSpace" -> 1
      [] context_type.tag = "NewParagraph" -> 2
      [] context_type.tag = "UnorderedList" -> 3
      [] context_type.tag = "OrderedList" -> 3

Context(context_type, indent, keep_prefix_space) ==
    [context_type |-> context_type, indent |-> indent,
     keep_prefix_space |-> keep_prefix_space]

\* a variant of merge that keeps the current modifier on equal precedence
merge_keep_on_tie(ctx, context_type) ==
    IF precedence(ctx.context_type) >= precedence(context_type)
    THEN Context(ctx.context_type, ctx.indent, ctx.keep_prefix_space)
    ELSE LET indent == IF context_type.tag \in {"UnorderedList", "OrderedList"}
                       THEN ctx.indent + 2
                       ELSE ctx.indent
         IN  Context(context_type, indent, ctx.keep_prefix_space)

\* Context::merge
merge(ctx, context_type) ==
    IF precedence(ctx.context_type) > precedence(context_type)
    THEN Context(ctx.context_type, ctx.indent, ctx.keep_prefix_space)
    ELSE LET indent == IF context_type.tag \in {"UnorderedList", "OrderedList"}
                       THEN ctx.indent + 2
                       ELSE ctx.indent
         IN  Context(context_type, indent, ctx.keep_prefix_space)

is_rendered(status) == status # "NotRendered"

\* What a call leaves behind: the output string, the status it returns, and
\* whether it panicked instead of returning.
Ret(res, status) == [res |-> res, status |-> status, panic |-> FALSE]
Panic(res) == [res |-> res, status |-> "NotRendered", panic |-> TRUE]

-----------------------------------------------------------------------------
\* new_line, render_context

new_line(ctx, res) == res \o <<NL>> \o spaces(ctx.indent)

render_context(ctx, first_char, res) ==
    CASE ctx.context_type.tag = "Inline" -> res
      [] ctx.context_type.tag = "RequiresSpace" ->
            IF first_char # "." /\ first_char # "," /\ first_char # ";"
            THEN res \o <<SP>>
            ELSE res
      [] ctx.context_type.tag = "NewParagraph" -> new_line(ctx, new_line(ctx, res))
      [] ctx.context_type.tag = "UnorderedList" -> new_line(ctx, res) \o <<"-", SP>>
      [] ctx.context_type.tag = "OrderedList" ->
            new_line(ctx, res) \o to_string(ctx.context_type.idx) \o <<".", SP>>

-----------------------------------------------------------------------------
\* render_node and the loops over children it runs

RECURSIVE render_node(_, _, _)
RECURSIVE render_children_loop(_, _, _, _)
RECURSIVE render_ul_loop(_, _, _, _)
RECURSIVE render_ol_loop(_, _, _, _, _)
RECURSIVE render_code_block_loop(_, _, _)
RECURSIVE render_generic_loop(_, _, _, _)

\* render_children: the loop over the children, with the status so far
render_children_loop(chs, res, ctx, status) ==
    IF chs = <<>> THEN Ret(res, status)
    ELSE LET st == render_node(Head(chs), res, ctx)
         IN  IF st.panic THEN st
             ELSE render_children_loop(Tail(chs), st.res, ctx,
                      IF is_rendered(st.status) THEN st.status ELSE status)

render_children(chs, res, ctx) == render_children_loop(chs, res, ctx, "NotRendered")

\* the loop of "ul"
render_ul_loop(chs, res, ctx, status) ==
    IF chs = <<>> THEN Ret(res, status)
    ELSE LET st == render_node(Head(chs), res, merge(ctx, UnorderedList))
         IN  IF st.panic THEN st
             ELSE render_ul_loop(Tail(chs), st.res, ctx,
                      IF is_rendered(st.status) THEN "Rendered" ELSE status)

\* the loop of "ol"
render_ol_loop(chs, res, ctx, status, count) ==
    IF chs = <<>> THEN Ret(res, status)
    ELSE LET st == render_node(Head(chs), res, merge(ctx, OrderedList(count)))
         IN  IF st.panic THEN st
             ELSE IF is_rendered(st.status)
                  THEN render_ol_loop(Tail(chs), st.res, ctx, "Rendered", count + 1)
                  ELSE render_ol_loop(Tail(chs), st.res, ctx, status, count)

\* the loop of a "code" whose parent is "pre"
render_code_block_loop(chs, res, ctx) ==
    IF chs = <<>> THEN Ret(res, "Rendered")
    ELSE LET st == render_node(Head(chs), new_line(ctx, res),
                               Context(Inline, ctx.indent, TRUE))
         IN  IF st.panic THEN st
             ELSE render_code_block_loop(Tail(chs), st.res, ctx)

\* a variant that asks for a paragraph break ahead of every child
generic_child_context_new_paragraph(ctx, status) == merge(ctx, NewParagraph)

\* the context the generic element hands to its next child
generic_child_context(ctx, status) ==
    CASE status = "NotRendered" -> merge(ctx, NewParagraph)
      [] status = "Rendered" -> Context(Inline, ctx.indent, ctx.keep_prefix_space)
      [] status = "RenderedRequiresSpace" ->
            Context(RequiresSpace, ctx.indent, ctx.keep_prefix_space)

\* the loop of every other element
render_generic_loop(chs, res, ctx, status) ==
    IF chs = <<>>
    THEN Ret(res, IF is_rendered(status) THEN "Rendered" ELSE "NotRendered")
    ELSE LET st == render_node(Head(chs), res, generic_child_context(ctx, status))
         IN  IF st.panic THEN st
             ELSE render_generic_loop(Tail(chs), st.res, ctx,
                      IF is_rendered(st.status) THEN st.status ELSE status)

\* Node::Text
render_text(node, res, ctx) ==
    LET txt == IF ctx.keep_prefix_space THEN node.text ELSE trim(node.text)
    IN  IF txt = <<>> THEN Ret(res, "NotRendered")
        ELSE LET replaced == replace_newline(txt)
             IN  Ret(render_context(ctx, replaced[1], res) \o replaced, "Rendered")

inline_context(ctx) == Context(Inline, ctx.indent, ctx.keep_prefix_space)

\* element.attr("href").unwrap_or("")
href_or_empty(node) == IF node.href = <<>> THEN <<>> ELSE node.href[1]

\* "a"
render_a(node, res, ctx) ==
    LET opened == render_context(merge(ctx, RequiresSpace), "[", res) \o <<"[">>
        st == render_children(children(node), opened, inline_context(ctx))
    IN  IF st.panic THEN st
        ELSE Ret(st.res \o <<"]", "(">> \o href_or_empty(node) \o <<")">>,
                 "RenderedRequiresSpace")

\* "span"
render_span(node, res, ctx) ==
    LET st == render_children(children(node), render_context(ctx, SP, res),
                              inline_context(ctx))
    IN  IF st.panic THEN st ELSE Ret(st.res, "RenderedRequiresSpace")

\* "strong"
render_strong(node, res, ctx) ==
    LET st == render_children(children(node),
                              render_context(ctx, SP, res) \o <<"*", "*">>,
                              inline_context(ctx))
    IN  IF st.panic THEN st
        ELSE Ret(st.res \o <<"*", "*">>, "RenderedRequiresSpace")

\* node.parent() is an element named "pre"
is_block(node) == node.parent = "pre"

\* "code" outside "pre": children().next().unwrap() panics without a child
render_code_inline(node, res, ctx) ==
    LET opened == render_context(merge(ctx, RequiresSpace), BT, res) \o <<BT>>
    IN  IF children(node) = <<>> THEN Panic(opened)
        ELSE LET st == render_node(Head(children(node)), opened, inline_context(ctx))
             IN  IF st.panic THEN st
                 ELSE Ret(st.res \o <<BT>>, "RenderedRequiresSpace")

Fence == <<BT, BT, BT>>

\* "code" inside "pre"
render_code_block(node, res, ctx) ==
    LET low == ctx.context_type.tag \in {"Inline", "RequiresSpace"}
        sep == render_context(ctx, SP, res)
        opened == (IF low THEN new_line(ctx, sep) ELSE sep) \o Fence
        st == render_code_block_loop(children(node), opened, ctx)
    IN  IF st.panic THEN st
        ELSE LET closed == new_line(ctx, st.res) \o Fence
             IN  Ret(IF low THEN new_line(ctx, closed) ELSE closed, "Rendered")

render_node(node, res, ctx) ==
    CASE node.kind \in {"Document", "Fragment"} ->
            render_children(children(node), res, ctx)
      [] node.kind = "Text" -> render_text(node, res, ctx)
      [] node.kind = "Element" ->
            (CASE node.name = "a" -> render_a(node, res, ctx)
               [] node.name = "span" -> render_span(node, res, ctx)
               [] node.name = "strong" -> render_strong(node, res, ctx)
               [] node.name = "script" -> Ret(res, "NotRendered")
               [] node.name = "ul" ->
                     render_ul_loop(children(node), res, ctx, "NotRendered")
               [] node.name = "ol" ->
                     render_ol_loop(children(node), res, ctx, "NotRendered", 1)
               [] node.name = "code" ->
                     IF ~is_block(node) THEN render_code_inline(node, res, ctx)
                     ELSE render_code_block(node, res, ctx)
               [] OTHER -> render_generic_loop(children(node), res, ctx, "NotRendered"))
      [] node.kind \in {"Comment", "Doctype", "ProcessingInstruction"} ->
            Ret(res, "NotRendered")

\* a buffer that still holds what the call before printed
stale_res == out

\* String::new()
fresh_res == <<>>

\* render: the walk from the root, then println!
render(tree) ==
    LET st == render_node(tree, fresh_res, Context(Inline, 0, FALSE))
    IN  IF st.panic THEN st ELSE Ret(st.res \o <<NL>>, st.status)

-----------------------------------------------------------------------------
\* Inputs: every document whose body holds at most MaxNodes nodes over the
\* labels below, and a list of larger documents.

Texts == { <<"a">>, <<".">>, <<SP>>, <<"c", SP, "d">> }

Leaves == {Text(t) : t \in Texts}

Url == <<"u">>

\* element labels: <<name, href>>
Labels == {<<n, <<>> >> : n \in {"span", "strong", "ul", "ol", "code", "pre", "div"}}
          \cup {<<"a", <<Url>> >>}

Labelled(l, kids) == Node("Element", l[1], l[2], <<>>, kids)

EmptyElements == {Labelled(l, <<>>) : l \in Labels}
                 \cup {Elem("script", <<>>), Elem("a", <<>>)}

\* the parser merges adjacent text, so no two text nodes are neighbours
Cons(t, f) == <<t>> \o f
Neighbours(t, f) == f # <<>> /\ t.kind = "Text" /\ f[1].kind = "Text"
Conses(ts, fs) ==
    { p[1] : p \in { q \in {<<Cons(t, f), Neighbours(t, f)>> : t \in ts, f \in fs} : ~q[2] } }
Wraps(fs) == {Labelled(l, f) : l \in Labels, f \in fs}

\* forests and trees by their number of nodes
Trees1 == Leaves \cup EmptyElements
Forests1 == {<<t>> : t \in Trees1}
Trees2 == Wraps(Forests1)
Forests2 == Conses(Trees1, Forests1) \cup {<<t>> : t \in Trees2}
Trees3 == IF MaxNodes > 3 THEN Wraps(Forests2) ELSE {}
Forests3 ==
    IF MaxNodes > 3
    THEN Conses(Trees1, Forests2) \cup Conses(Trees2, Forests1) \cup {<<t>> : t \in Trees3}
    ELSE {}

ForestsOfSize(n) ==
    CASE n = 0 -> {<<>>}
      [] n = 1 -> Forests1
      [] n = 2 -> Forests2
      [] n = 3 -> Forests3

TreesOfSize(n) ==
    CASE n = 1 -> Trees1
      [] n = 2 -> Trees2
      [] n = 3 -> Trees3

\* html is a document whose body is a forest of n nodes: a first tree of k
\* nodes, then a forest of n - k
HtmlOfSize(n) ==
    \/ n = 0 /\ html = ParseDocument(<<>>)
    \/ \E k \in 1..(n - 1) : \E t \in TreesOfSize(k) : \E f \in ForestsOfSize(n - k) :
          ~Neighbours(t, f) /\ html = ParseDocument(Cons(t, f))
    \/ n = 1 /\ \E t \in Trees1 : html = ParseDocument(<<t>>)
    \/ n > 1 /\ \E l \in Labels : \E f \in ForestsOfSize(n - 1) :
          html = ParseDocument(<<Labelled(l, f)>>)

Raw == <<"a", NL, TAB, "b">>
RawNl == <<"a", NL>>
Long == <<"a", "a", "a", "a", "a">>

Scenarios == {
    \* <p>a <a href="u">b</a>.</p>
    <<Elem("p", <<Text(<<"a", SP>>), Link(Url, <<Text(<<"b">>)>>), Text(<<".">>)>>)>>,
    \* <ul><li>a</li><li>b</li></ul>
    <<Elem("ul", <<Elem("li", <<Text(<<"a">>)>>), Elem("li", <<Text(<<"b">>)>>)>>)>>,
    \* <h2>a</h2><p>b c</p>
    <<Elem("h2", <<Text(<<"a">>)>>), Elem("p", <<Text(<<"b", SP, "c">>)>>)>>,
    \* <pre><code>a\n\tb</code></pre>, <pre><code>a\n</code></pre>
    <<Elem("pre", <<Elem("code", <<Text(Raw)>>)>>)>>,
    <<Elem("pre", <<Elem("code", <<Text(RawNl)>>)>>)>>,
    \* <p>aaaaa</p>, <p>b aaaaa</p>
    <<Elem("p", <<Text(Long)>>)>>,
    <<Elem("p", <<Text(<<"b", SP>> \o Long)>>)>>,
    \* <ol><li></li><li>a</li></ol>
    <<Elem("ol", <<Elem("li", <<>>), Elem("li", <<Text(<<"a">>)>>)>>)>>,
    \* <ol><li><span></span></li><li>a</li></ol>
    <<Elem("ol", <<Elem("li", <<Elem("span", <<>>)>>), Elem("li", <<Text(<<"a">>)>>)>>)>>,
    \* <ol><li>a</li><li> </li><li>b</li></ol>
    <<Elem("ol", <<Elem("li", <<Text(<<"a">>)>>), Elem("li", <<Text(<<SP>>)>>),
                   Elem("li", <<Text(<<"b">>)>>)>>)>>,
    \* <div><div><div>a</div></div></div><div>b</div>
    <<Elem("div", <<Elem("div", <<Elem("div", <<Text(<<"a">>)>>)>>)>>),
      Elem("div", <<Text(<<"b">>)>>)>>,
    \* <ul><li>a<ul><li>b</li></ul></li></ul><p>c</p>
    <<Elem("ul", <<Elem("li", <<Text(<<"a">>),
                                Elem("ul", <<Elem("li", <<Text(<<"b">>)>>)>>)>>)>>),
      Elem("p", <<Text(<<"c">>)>>)>>,
    \* <p><a href="u">a</a><span>.</span></p>
    <<Elem("p", <<Link(Url, <<Text(<<"a">>)>>), Elem("span", <<Text(<<".">>)>>)>>)>>,
    \* <p>a <code>b<strong>c</strong></code></p>
    <<Elem("p", <<Text(<<"a", SP>>),
                  Elem("code", <<Text(<<"b">>), Elem("strong", <<Text(<<"c">>)>>)>>)>>)>>,
    \* <p>a <strong>b</strong> c</p>
    <<Elem("p", <<Text(<<"a", SP>>), Elem("strong", <<Text(<<"b">>)>>),
                  Text(<<SP, "c">>)>>)>>,
    \* <p>a</p>b
    <<Elem("p", <<Text(<<"a">>)>>), Text(<<"b">>)>>,
    \* <ul><li>a<p>b</p></li></ul>
    <<Elem("ul", <<Elem("li", <<Text(<<"a">>), Elem("p", <<Text(<<"b">>)>>)>>)>>)>>
}

IgnoredTags == {"script", "head", "noscript", "img", "picture", "audio", "video", "source"}

\* documents with text below the elements of IgnoredTags that can hold any:
\* a title in the head, and text in an element of the body (img and source
\* are void elements, the parser gives them no children)
IgnoredTagInputs ==
    {ParseDocumentWithHead(<<Elem("title", <<Text(<<"b">>)>>)>>, <<Text(<<"a">>)>>)}
    \cup {ParseDocument(<<Text(<<"a">>), Elem(tag, <<Text(<<"b">>)>>)>>) :
             tag \in {"script", "noscript", "picture", "audio", "video"}}
    \cup {ParseDocument(<<Text(<<"a">>), Elem(tag, <<>>)>>) : tag \in {"img", "source"}}

RerunInputs == {ParseDocument(body) : body \in Scenarios}

\* the narrowest width and the widest one of the model
Widths == {1, MaxWidth}

-----------------------------------------------------------------------------
\* The application as App::new builds it

\* Option<T>: None is <<>>, Some(x) is <<x>>
None == <<>>
Some(x) == <<x>>

\* Item: the fields the application reads and writes; pub_date 0 is None
Item(id, pub_date, read) == [id |-> id, link |-> id, pub_date |-> pub_date, read |-> read]

\* the urls of the channels of the data
Channels == <<"a", "b">>

\* DataLoader::new over the data load_data read from disk
DataLoader_new(items) ==
    [items |-> items, channels |-> Channels, version |-> 0, poisoned |-> FALSE]

\* AppConfig: the switches the components read
AppConfig(disable_read_status, disable_browser_open) ==
    [disable_read_status |-> disable_read_status,
     disable_browser_open |-> disable_browser_open]

\* AppConfig::default()
AppConfig_default == AppConfig(FALSE, FALSE)

ItemList_new(focused, config) ==
    [config |-> config, focused |-> focused, selected |-> None, render_cache |-> None]

\* ContentState: Empty, Loading(tick), Data(raw_text, scroll_offset, render_cache)
ContentState_Empty ==
    [tag |-> "Empty", tick |-> 0, raw_text |-> "", scroll_offset |-> 0,
     render_cache |-> None]
ContentState_Loading(tick) == [ContentState_Empty EXCEPT !.tag = "Loading", !.tick = tick]
ContentState_Data(raw_text, scroll_offset, render_cache) ==
    [tag |-> "Data", tick |-> 0, raw_text |-> raw_text,
     scroll_offset |-> scroll_offset, render_cache |-> render_cache]

Content_new(focused) == [focused |-> focused, state |-> ContentState_Empty]

\* ToastState: Hidden, Loading {ticks}, Error {ticks}
ToastState(tag, ticks) == [tag |-> tag, ticks |-> ticks]
Toast_new == ToastState("Hidden", 0)

Help_new == [open |-> FALSE]

\* nothing is on the screen before the first draw
Terminal_init == [drawn |-> FALSE, list_width |-> 0, content_width |-> 0, list |-> <<>>,
                  lines |-> None]

\* the application part of the state while only the renderer is looked at
AppAtRest ==
    /\ focus = "ItemList"
    /\ prev_focus = None
    /\ item_list = ItemList_new(TRUE, AppConfig_default)
    /\ content = Content_new(FALSE)
    /\ toast = Toast_new
    /\ help = Help_new
    /\ data_loader = DataLoader_new(<<>>)
    /\ event_bus = <<>>
    /\ tasks = [refresh |-> "none", loads |-> <<>>, entered |-> None, browser |-> None,
                keys |-> 0, ticks |-> 0]
    /\ run = [pc |-> "idle", saved |-> None, returned |-> None]
    /\ terminal = Terminal_init
    /\ overflow_checks = TRUE

-----------------------------------------------------------------------------
\* The program: one call of render on a document (Spec), and a caller that
\* renders one document after the other (SpecRerun).

Init ==
    /\ \/ \E n \in 0..MaxNodes : HtmlOfSize(n)
       \/ html \in RerunInputs
       \/ html \in IgnoredTagInputs
    /\ max_width \in Widths
    /\ pc = "idle"
    /\ out = <<>>
    /\ calls = 0
    /\ first_run = <<>>
    /\ renderer = <<>>
    /\ AppAtRest

\* render(html): on a panic nothing is printed
Render ==
    /\ pc = "idle"
    /\ LET st == render(html)
       IN  /\ pc' = IF st.panic THEN "panicked" ELSE "done"
           /\ out' = IF st.panic THEN <<>> ELSE st.res
    /\ calls' = calls + 1
    /\ UNCHANGED <<html, max_width, first_run, renderer>>
    /\ UNCHANGED appvars

Next == Render

Spec == Init /\ [][Next]_vars

InitRerun ==
    /\ html \in RerunInputs
    /\ max_width \in Widths
    /\ pc = "idle"
    /\ out = <<>>
    /\ calls = 0
    /\ first_run = <<>>
    /\ renderer = <<>>
    /\ AppAtRest

\* the caller keeps what the first call gave it and turns to another document,
\* or to the same one again
NextDocument ==
    /\ pc # "idle"
    /\ calls < MaxCalls
    /\ first_run' = IF first_run = <<>>
                    THEN <<[html |-> html, max_width |-> max_width,
                            pc |-> pc, out |-> out]>>
                    ELSE first_run
    /\ html' \in RerunInputs
    /\ max_width' \in Widths
    /\ pc' = "idle"
    /\ UNCHANGED <<out, calls, renderer>>
    /\ UNCHANGED appvars

NextRerun == Render \/ NextDocument

SpecRerun == InitRerun /\ [][NextRerun]_vars

-----------------------------------------------------------------------------
\* Reading the output and the document

\* every character of the model's alphabet is one column wide
Width(s) == Len(s)

\* s split at every c (c itself dropped)
RECURSIVE SplitAt(_, _, _, _)
SplitAt(s, seps, cur, acc) ==
    IF s = <<>> THEN Append(acc, cur)
    ELSE IF Head(s) \in seps THEN SplitAt(Tail(s), seps, <<>>, Append(acc, cur))
         ELSE SplitAt(Tail(s), seps, Append(cur, Head(s)), acc)

\* the lines of a printed text: the line break that ends the text starts no line
Lines(s) ==
    LET parts == SplitAt(s, {NL}, <<>>, <<>>)
    IN  IF parts[Len(parts)] = <<>> THEN SubSeq(parts, 1, Len(parts) - 1) ELSE parts

NonEmpty(w) == w # <<>>
\* the whitespace-delimited words of a string
Words(s) == SelectSeq(SplitAt(s, White, <<>>, <<>>), NonEmpty)

InSeq(x, s) == \E i \in 1..Len(s) : s[i] = x

RECURSIVE IsSubsequence(_, _)
IsSubsequence(s, t) ==
    IF s = <<>> THEN TRUE
    ELSE IF t = <<>> THEN FALSE
         ELSE IF Head(s) = Head(t) THEN IsSubsequence(Tail(s), Tail(t))
              ELSE IsSubsequence(s, Tail(t))

RECURSIVE Flatten(_)
Flatten(ss) == IF ss = <<>> THEN <<>> ELSE Head(ss) \o Flatten(Tail(ss))

\* every node of a tree, in document order (depth first)
RECURSIVE Dfs(_)
Dfs(node) == <<node>> \o Flatten([i \in 1..Len(node.children) |-> Dfs(node.children[i])])

IsText(n) == n.kind = "Text"
IsElement(n) == n.kind = "Element"
TextNodes(tree) == SelectSeq(Dfs(tree), IsText)
Elements(tree) == SelectSeq(Dfs(tree), IsElement)

Letter == {"a", "b", "c", "d"}
IsLetter(c) == c \in Letter
\* the text tokens of a string: what is left without markup and separators
Letters(s) == SelectSeq(s, IsLetter)
\* the text tokens of the document, in document order
RECURSIVE DfsLetters(_)
DfsLetters(n) ==
    IF n.kind = "Text" THEN Letters(n.text)
    ELSE Flatten([i \in 1..Len(n.children) |-> DfsLetters(n.children[i])])

RECURSIVE HasElementNamed(_, _)
HasElementNamed(n, names) ==
    \/ n.kind = "Element" /\ n.name \in names
    \/ \E i \in 1..Len(n.children) : HasElementNamed(n.children[i], names)

IsDigit(c) == InSeq(c, DigitChar)
\* a node with visible text: some text below it, outside script, is not blank
RECURSIVE HasContent(_)
HasContent(n) ==
    \/ n.kind = "Text" /\ trim(n.text) # <<>>
    \/ /\ n.kind \in {"Element", "Document", "Fragment"}
       /\ n.name # "script"
       /\ \E i \in 1..Len(n.children) : HasContent(n.children[i])

\* an element all of whose children are ignored tags, comments or blank text
Ignorable(n) ==
    \/ n.kind = "Comment"
    \/ n.kind = "Text" /\ trim(n.text) = <<>>
    \/ n.kind = "Element" /\ n.name = "script"
EmptySubtree(n) ==
    /\ n.kind = "Element"
    /\ \A i \in 1..Len(n.children) : Ignorable(n.children[i])

ContextTypes == {Inline, RequiresSpace, NewParagraph, UnorderedList, OrderedList(1)}

\* "\t" replaced by four spaces
expand_tabs(s) ==
    Flatten([i \in 1..Len(s) |-> IF s[i] = TAB THEN <<SP, SP, SP, SP>> ELSE <<s[i]>>])

HeadingLevel(name) ==
    CASE name = "h1" -> 1 [] name = "h2" -> 2 [] name = "h3" -> 3
      [] name = "h4" -> 4 [] name = "h5" -> 5 [] name = "h6" -> 6 [] OTHER -> 0

RECURSIVE Hashes(_)
Hashes(n) == IF n = 0 THEN <<>> ELSE <<"#">> \o Hashes(n - 1)

IsPrefix(p, s) == Len(p) <= Len(s) /\ SubSeq(s, 1, Len(p)) = p

-----------------------------------------------------------------------------
\* The claims

\* C1: every output line is at most max_width columns wide, except a line
\* whose only word is by itself wider than max_width.
C1_WidthInvariant ==
    pc = "done" =>
        \A i \in 1..Len(Lines(out)) :
            LET line == Lines(out)[i]
            IN  \/ Width(line) <= max_width
                \/ Len(Words(line)) = 1 /\ Width(Words(line)[1]) > max_width

\* C2: the text tokens of the output occur in the order of the depth-first,
\* document-order traversal of the text nodes, none reordered and none twice;
\* in a document without script and code elements they are exactly the
\* document's tokens.
C2_OrderPreserved ==
    pc = "done" =>
        /\ IsSubsequence(Letters(out), DfsLetters(html))
        /\ ~HasElementNamed(html, {"script", "code"}) => Letters(out) = DfsLetters(html)

\* C2 witness: a finished call on the nested list followed by a paragraph,
\* whose tokens come from text nodes at three depths.
C2_Witness ==
    /\ pc = "done"
    /\ Letters(out) = <<"a", "b", "c">>
    /\ HasElementNamed(html, {"ul"})

\* C3: an element whose children are all ignored tags, comments or blank text
\* appends nothing and returns NotRendered, under every incoming context.
C3_EmptySubtreeElided ==
    pc # "idle" =>
        \A i \in 1..Len(Elements(html)) : \A ct \in ContextTypes :
            LET e == Elements(html)[i]
                st == render_node(e, <<>>, Context(ct, 0, FALSE))
            IN  EmptySubtree(e) =>
                    ~st.panic /\ st.res = <<>> /\ st.status = "NotRendered"

\* C4: in a document whose only list is one ol, the ordinals in the output are
\* exactly 1..M, M being the number of the ol's children with visible text.
C4_OrdinalsCorrect ==
    LET lists == SelectSeq(Elements(html), LAMBDA e : e.name \in {"ol", "ul"})
        ol == lists[1]
        withContent == SelectSeq(ol.children, HasContent)
    IN  (pc = "done" /\ Len(lists) = 1 /\ ol.name = "ol") =>
            SelectSeq(out, IsDigit) = [k \in 1..Len(withContent) |-> DigitChar[k + 1]]

\* C5: render terminates normally on every document: it never panics.
C5_NoFailure == pc # "panicked"

C7_RequiresSpaceSeparator ==
    pc # "idle" =>
        \A i \in 1..Len(Dfs(html)) :
            LET n == Dfs(html)[i]
                st == render_node(n, <<>>, Context(RequiresSpace, 0, FALSE))
                emitted == trim_start(st.res)
            IN  (/\ n.kind = "Text" \/ n.name \in {"a", "span", "strong"}
                 /\ ~st.panic
                 /\ emitted # <<>>) =>
                    st.res = IF emitted[1] \in Punct THEN emitted ELSE <<SP>> \o emitted

\* the text nodes rendered as flowing text: those outside script and code
RECURSIVE FlowTextNodes(_)
FlowTextNodes(n) ==
    IF n.kind = "Text" THEN <<n>>
    ELSE IF n.kind = "Element" /\ n.name \in {"script", "code"} THEN <<>>
         ELSE Flatten([i \in 1..Len(n.children) |-> FlowTextNodes(n.children[i])])

Contains(s, w) == \E i \in 1..(Len(s) - Len(w) + 1) : SubSeq(s, i, i + Len(w) - 1) = w

\* C8: every word of a text node is whole within one output line, and a word
\* wider than max_width has its line to itself.
C8_WordsAtomic ==
    pc = "done" =>
        \A i \in 1..Len(FlowTextNodes(html)) :
            \A j \in 1..Len(Words(FlowTextNodes(html)[i].text)) :
                LET word == Words(FlowTextNodes(html)[i].text)[j]
                IN  /\ \E k \in 1..Len(Lines(out)) : Contains(Lines(out)[k], word)
                    /\ Width(word) > max_width =>
                          \A k \in 1..Len(Lines(out)) :
                              Contains(Lines(out)[k], word) =>
                                  Len(Words(Lines(out)[k])) = 1

\* C9: a heading of level N with visible text emits three line breaks, N '#'
\* and one space before its children, and returns Rendered.
C9_Heading ==
    pc # "idle" =>
        \A i \in 1..Len(Elements(html)) :
            LET h == Elements(html)[i]
                st == render_node(h, <<>>, Context(NewParagraph, 0, FALSE))
            IN  (HeadingLevel(h.name) > 0 /\ HasContent(h)) =>
                    /\ st.status = "Rendered"
                    /\ IsPrefix(<<NL, NL, NL>> \o Hashes(HeadingLevel(h.name)) \o <<SP>>,
                                st.res)

\* the text nodes of code blocks
RawTextNodes(tree) ==
    Flatten([i \in 1..Len(Elements(tree)) |->
        IF Elements(tree)[i].name = "code" /\ Elements(tree)[i].parent = "pre"
        THEN SelectSeq(Elements(tree)[i].children, IsText)
        ELSE <<>>])

\* C10: text of a code block is emitted as it is, every line break of the
\* source starting a new output line and every tab as four spaces, and the
\* call returns Rendered.
C10_RawBlockText ==
    pc # "idle" =>
        \A i \in 1..Len(RawTextNodes(html)) :
            LET n == RawTextNodes(html)[i]
                st == render_node(n, <<>>, Context(Inline, 0, TRUE))
            IN  st.status = "Rendered" /\ st.res = expand_tabs(n.text)

\* how often the character c occurs in s
CountOf(s, c) == Len(SelectSeq(s, LAMBDA x : x = c))

\* what is printed before the first character that is neither a line break,
\* a space nor a list marker
RECURSIVE Lead(_)
Lead(s) ==
    IF s = <<>> THEN <<>>
    ELSE IF Head(s) \in {NL, SP, "-"} THEN <<Head(s)>> \o Lead(Tail(s)) ELSE <<>>

UlElements(tree) == SelectSeq(Elements(tree), LAMBDA e : e.name = "ul")

\* C11: a child of a ul with visible content starts on a new line with one
\* "- " marker before its first content; a child without visible content
\* prints nothing, neither marker nor line.
C11_UnorderedMarkers ==
    pc # "idle" =>
        \A i \in 1..Len(UlElements(html)) :
            LET ul == UlElements(html)[i]
                ctx == Context(NewParagraph, 0, FALSE)
            IN  \A k \in 1..Len(ul.children) :
                    LET ch == ul.children[k]
                        st == render_node(ch, <<>>, merge(ctx, UnorderedList))
                        lead == Lead(st.res)
                    IN  ~st.panic =>
                            IF HasContent(ch)
                            THEN /\ lead # <<>> /\ lead[1] = NL
                                 /\ CountOf(lead, NL) = 1
                                 /\ CountOf(lead, "-") = 1
                            ELSE st.res = <<>>

-----------------------------------------------------------------------------
\* The events and the DataLoader

\* Event: Tick, Keyboard(key), StartLoadingItem, LoadedItem(text), Toast(event)
Event(type, arg) == [type |-> type, arg |-> arg]
Tick == Event("Tick", "")
Keyboard(key) == Event("Keyboard", key)
StartLoadingItem == Event("StartLoadingItem", "")
LoadedItem(text) == Event("LoadedItem", text)
ToastEvent(t) == Event("Toast", t)

KeyboardEvent == {"Left", "Right", "Up", "Down", "Back", "Enter", "Space", "Open", "Help"}

\* EventState::or
or(self, other) == IF self = "Handled" \/ other = "Handled" THEN "Handled" ELSE "Ignored"

\* EventSender::send
send(bus, event) == Append(bus, event)

\* the largest u16
U16_MAX == 65535

\* a version that is left as it is
keep_version(version) == [version |-> version, panic |-> FALSE]

\* *version += 1 on a u16: the build either panics on overflow or wraps
bump_version(version) ==
    IF version < U16_MAX THEN [version |-> version + 1, panic |-> FALSE]
    ELSE IF overflow_checks THEN [version |-> version, panic |-> TRUE]
         ELSE [version |-> 0, panic |-> FALSE]

\* what a loader call leaves behind; a panic while a lock is held poisons it
LoaderRet(loader) == [loader |-> loader, panic |-> FALSE]
LoaderPanic(loader) == [loader |-> [loader EXCEPT !.poisoned = TRUE], panic |-> TRUE]

\* DataLoader::set_read (index counts from 0)
set_read(loader, index, read) ==
    IF loader.poisoned \/ index >= Len(loader.items) THEN LoaderPanic(loader)
    ELSE LET written == [loader EXCEPT !.items[index + 1].read = read]
             bumped == bump_version(loader.version)
         IN  IF bumped.panic THEN LoaderPanic(written)
             ELSE LoaderRet([written EXCEPT !.version = bumped.version])

\* items.sort_by(|a, b| b.pub_date.cmp(&a.pub_date)): stable, latest first;
\* pub_date 0 is None, which is less than every date
RECURSIVE insert_sorted(_, _)
insert_sorted(sorted, it) ==
    IF sorted = <<>> THEN <<it>>
    ELSE IF sorted[Len(sorted)].pub_date >= it.pub_date THEN Append(sorted, it)
         ELSE Append(insert_sorted(SubSeq(sorted, 1, Len(sorted) - 1), it),
                     sorted[Len(sorted)])

RECURSIVE sort_by_pub_date(_)
sort_by_pub_date(items) ==
    IF items = <<>> THEN <<>>
    ELSE insert_sorted(sort_by_pub_date(SubSeq(items, 1, Len(items) - 1)),
                       items[Len(items)])

\* read_items left empty: the marks of the old items are forgotten
read_items_forgotten(items) == {}

\* the ids of the items marked read
read_items(items) == {items[i].id : i \in {j \in 1..Len(items) : items[j].read}}

\* DataLoader::refresh once every channel is fetched without error: the new
\* items take the place of the old ones and keep their read marks
refresh_ok(loader, fetched) ==
    IF loader.poisoned THEN LoaderPanic(loader)
    ELSE LET sorted == sort_by_pub_date(fetched)
             marked == [i \in 1..Len(sorted) |->
                          [sorted[i] EXCEPT !.read = sorted[i].id \in read_items(loader.items)]]
             stored == [loader EXCEPT !.items = marked]
             bumped == bump_version(loader.version)
         IN  IF bumped.panic THEN LoaderPanic(stored)
             ELSE LoaderRet([stored EXCEPT !.version = bumped.version])

\* what get_channel gives for one channel
Ok(items) == [ok |-> TRUE, items |-> items]
Err == [ok |-> FALSE, items |-> <<>>]

\* the items of the channels that were fetched, in channel order
RECURSIVE fetched_items(_)
fetched_items(res) ==
    IF res = <<>> THEN <<>>
    ELSE (IF Head(res).ok THEN Head(res).items ELSE <<>>) \o fetched_items(Tail(res))

\* what refresh gives back and leaves behind
RefreshRet(status, r) == [status |-> status, loader |-> r.loader, panic |-> r.panic]

\* refresh that stores what the other channels gave when a channel failed
refresh_partial_update(loader, res) ==
    IF \A i \in 1..Len(res) : res[i].ok
    THEN LET r == refresh_ok(loader, fetched_items(res))
         IN  RefreshRet(IF r.panic THEN "Panic" ELSE "Ok", r)
    ELSE RefreshRet("Error", refresh_ok(loader, fetched_items(res)))

\* DataLoader::refresh from join_all on, res being what join_all gives, one
\* result for each channel: the data lock is taken only if no channel failed
refresh(loader, res) ==
    IF \A i \in 1..Len(res) : res[i].ok
    THEN LET r == refresh_ok(loader, fetched_items(res))
         IN  RefreshRet(IF r.panic THEN "Panic" ELSE "Ok", r)
    ELSE RefreshRet("Error", LoaderRet(loader))

-----------------------------------------------------------------------------
\* ItemList

\* usize::MAX; the largest integer the checker has stands for it
USIZE_MAX == 2147483647

\* ListState::select_next, ListState::select_previous
select_next(selected) ==
    IF selected = None THEN Some(0)
    ELSE Some(IF selected[1] = USIZE_MAX THEN USIZE_MAX ELSE selected[1] + 1)

select_previous(selected) ==
    IF selected = None THEN Some(USIZE_MAX)
    ELSE Some(IF selected[1] = 0 THEN 0 ELSE selected[1] - 1)

\* what a handler of ItemList leaves behind
ItemListRet(il, loader, bus, tsk, state, panic) ==
    [item_list |-> il, data_loader |-> loader, event_bus |-> bus, tasks |-> tsk,
     state |-> state, panic |-> panic]

\* the refresh task may store its items between the moment a handler drops
\* the data lock and the moment set_read takes it again: fetched is Some(items)
\* if it does
in_the_gap(loader, fetched) ==
    IF fetched = None THEN loader ELSE refresh_ok(loader, fetched[1]).loader

\* self.data_loader.get_data() followed by data.items[selected]
can_index(loader, selected) == ~loader.poisoned /\ selected < Len(loader.items)

\* a handler that ends with self.data_loader.set_read(..) and Handled
after_set_read(il, bus, tsk, r) == ItemListRet(il, r.loader, bus, tsk, "Handled", r.panic)

\* KeyboardEvent::Open, whatever the focus
ItemList_open(il, loader, bus, tsk, fetched) ==
    IF il.selected = None THEN ItemListRet(il, loader, bus, tsk, "Handled", FALSE)
    ELSE LET selected == il.selected[1]
         IN  IF ~can_index(loader, selected)
             THEN ItemListRet(il, LoaderPanic(loader).loader, bus, tsk, "Ignored", TRUE)
             ELSE LET opened == [tsk EXCEPT !.browser = Some(loader.items[selected + 1].link)]
                  IN  IF il.config.disable_read_status
                      THEN ItemListRet(il, loader, bus, opened, "Handled", FALSE)
                      ELSE after_set_read(il, bus, opened,
                               set_read(in_the_gap(loader, fetched), selected, TRUE))

\* KeyboardEvent::Enter
ItemList_enter(il, loader, bus, tsk, fetched) ==
    IF il.selected = None THEN ItemListRet(il, loader, bus, tsk, "Handled", FALSE)
    ELSE LET selected == il.selected[1]
         IN  IF ~can_index(loader, selected)
             THEN ItemListRet(il, LoaderPanic(loader).loader, bus, tsk, "Ignored", TRUE)
             ELSE LET spawned == [tsk EXCEPT !.loads = Append(@, loader.items[selected + 1].link),
                                             !.entered = Some(loader.items[selected + 1].link)]
                      sent == send(bus, StartLoadingItem)
                  IN  IF il.config.disable_read_status
                      THEN ItemListRet(il, loader, sent, spawned, "Handled", FALSE)
                      ELSE after_set_read(il, sent, spawned,
                               set_read(in_the_gap(loader, fetched), selected, TRUE))

\* KeyboardEvent::Space
ItemList_space(il, loader, bus, tsk, fetched) ==
    IF il.selected = None THEN ItemListRet(il, loader, bus, tsk, "Handled", FALSE)
    ELSE LET selected == il.selected[1]
         IN  IF ~can_index(loader, selected)
             THEN ItemListRet(il, LoaderPanic(loader).loader, bus, tsk, "Ignored", TRUE)
             ELSE LET new_read == ~loader.items[selected + 1].read
                  IN  IF il.config.disable_read_status
                      THEN ItemListRet(il, loader, bus, tsk, "Handled", FALSE)
                      ELSE after_set_read(il, bus, tsk,
                               set_read(in_the_gap(loader, fetched), selected, new_read))

\* ItemList::handle_keyboard_event
ItemList_handle_keyboard_event(il, key, loader, bus, tsk, fetched) ==
    IF key = "Open" /\ ~il.config.disable_browser_open
    THEN ItemList_open(il, loader, bus, tsk, fetched)
    ELSE IF ~il.focused THEN ItemListRet(il, loader, bus, tsk, "Ignored", FALSE)
    ELSE CASE key = "Up" ->
                ItemListRet([il EXCEPT !.selected = select_previous(@)],
                            loader, bus, tsk, "Handled", FALSE)
           [] key = "Down" ->
                ItemListRet([il EXCEPT !.selected = select_next(@)],
                            loader, bus, tsk, "Handled", FALSE)
           [] key = "Enter" -> ItemList_enter(il, loader, bus, tsk, fetched)
           [] key = "Space" -> ItemList_space(il, loader, bus, tsk, fetched)
           [] OTHER -> ItemListRet(il, loader, bus, tsk, "Ignored", FALSE)

\* ItemList::handle_event
ItemList_handle_event(il, event, loader, bus, tsk, fetched) ==
    IF event.type = "Keyboard"
    THEN ItemList_handle_keyboard_event(il, event.arg, loader, bus, tsk, fetched)
    ELSE ItemListRet(il, loader, bus, tsk, "Ignored", FALSE)

-----------------------------------------------------------------------------
\* Content

\* the articles an item's link may load, and the text load_item gives when
\* the request fails
Articles == {"x", "y", "z"}
FailedLoading == "Failed loading item"

\* Html::parse_document of a loaded text
parse_document(raw_text) ==
    CASE raw_text = "x" ->
            ParseDocument(<<Elem("p", <<Text(<<"a", SP>>), Elem("strong", <<Text(<<"b">>)>>),
                                       Text(<<SP, "c">>)>>)>>)
      [] raw_text = "y" ->
            ParseDocument(<<Elem("ul", <<Elem("li", <<Text(<<"a">>)>>),
                                        Elem("li", <<Text(<<"b">>)>>)>>),
                            Elem("p", <<Text(<<"c", SP, "d">>)>>)>>)
      [] raw_text = "z" ->
            ParseDocument(<<Elem("div", <<Elem("p", <<Text(<<"d">>)>>),
                                         Elem("pre", <<Elem("code", <<Text(<<"a", NL, "b">>)>>)>>),
                                         Elem("p", <<Text(<<"c">>)>>)>>)>>)
      [] OTHER -> ParseDocument(<<Text(<<"d", SP, "d">>)>>)

\* render(&self.raw_text, max_width, true): the lines of the walk and the
\* width they were asked for
render_lines(raw_text, width) ==
    [max_width |-> width, lines |-> Lines(render(parse_document(raw_text)).res)]

\* the largest u8
U8_MAX == 255

\* u8::wrapping_add(1)
wrapping_add_1(tick) == IF tick = U8_MAX THEN 0 ELSE tick + 1

\* usize::saturating_sub
saturating_sub(a, b) == IF a >= b THEN a - b ELSE 0

ContentRet(c, state) == [content |-> c, state |-> state]

\* ContentStateData::handle_keyboard_event
ContentStateData_handle_keyboard_event(data, key) ==
    CASE key = "Up" ->
            [data |-> [data EXCEPT !.scroll_offset = saturating_sub(@, 1)],
             state |-> "Handled"]
      [] key = "Down" ->
            [data |-> IF data.render_cache = None THEN data
                      ELSE LET nr_lines == Len(data.render_cache[1].lines.lines)
                               moved == data.scroll_offset + 1
                               limit == saturating_sub(nr_lines, 5)
                           IN  [data EXCEPT !.scroll_offset =
                                                IF moved < limit THEN moved ELSE limit],
             state |-> "Handled"]
      [] OTHER -> [data |-> data, state |-> "Ignored"]

\* Content::handle_keyboard_event
Content_handle_keyboard_event(c, key) ==
    IF ~c.focused THEN ContentRet(c, "Ignored")
    ELSE IF c.state.tag = "Data"
         THEN LET r == ContentStateData_handle_keyboard_event(c.state, key)
              IN  ContentRet([c EXCEPT !.state = r.data], r.state)
         ELSE ContentRet(c, "Ignored")

\* Content::handle_event
Content_handle_event(c, event) ==
    CASE event.type = "Keyboard" -> Content_handle_keyboard_event(c, event.arg)
      [] event.type = "Tick" ->
            IF c.state.tag = "Loading"
            THEN ContentRet([c EXCEPT !.state =
                                ContentState_Loading(wrapping_add_1(c.state.tick))],
                            "Handled")
            ELSE ContentRet(c, "Ignored")
      [] event.type = "StartLoadingItem" ->
            ContentRet([c EXCEPT !.state = ContentState_Loading(0)], "Handled")
      [] event.type = "LoadedItem" ->
            ContentRet([c EXCEPT !.state = ContentState_Data(event.arg, 0, None)], "Handled")
      [] event.type = "Toast" -> ContentRet(c, "Ignored")

-----------------------------------------------------------------------------
\* Toast and Help

\* TICK_FPS of the event task, which main hands to App::new
TICK_FPS == 30

ToastRet(t, state) == [toast |-> t, state |-> state]

\* Toast::handle_event
Toast_handle_event(t, event) ==
    CASE event.type = "Toast" /\ event.arg = "Loading" ->
            ToastRet(ToastState("Loading", 0), "Handled")
      [] event.type = "Toast" /\ event.arg = "Error" ->
            ToastRet(ToastState("Error", 0), "Handled")
      [] event.type = "Toast" /\ event.arg = "Hide" ->
            ToastRet(ToastState("Hidden", 0), "Handled")
      [] event.type = "Tick" ->
            (CASE t.tag = "Error" ->
                     ToastRet(IF t.ticks > TICK_FPS * 5 THEN ToastState("Hidden", 0)
                              ELSE ToastState("Error", t.ticks + 1), "Handled")
               [] t.tag = "Loading" -> ToastRet(ToastState("Loading", t.ticks + 1), "Handled")
               [] t.tag = "Hidden" -> ToastRet(t, "Ignored"))
      [] OTHER -> ToastRet(t, "Ignored")

\* Help::open, Help::close
Help_open(h) == [h EXCEPT !.open = TRUE]
Help_close(h) == [h EXCEPT !.open = FALSE]

-----------------------------------------------------------------------------
\* App

\* the fields of App and what its components share, as one value
AppState ==
    [focus |-> focus, prev_focus |-> prev_focus, item_list |-> item_list,
     content |-> content, toast |-> toast, help |-> help,
     data_loader |-> data_loader, event_bus |-> event_bus, tasks |-> tasks]

\* set_focus with a Help arm that leaves the item list focused
set_focus_list_stays_focused(a, f) ==
    CASE f = "ItemList" ->
            [a EXCEPT !.item_list.focused = TRUE, !.content.focused = FALSE,
                      !.help = Help_close(a.help), !.focus = f]
      [] f = "Content" ->
            [a EXCEPT !.item_list.focused = FALSE, !.content.focused = TRUE,
                      !.help = Help_close(a.help), !.focus = f]
      [] f = "Help" ->
            [a EXCEPT !.content.focused = FALSE,
                      !.prev_focus = Some(a.focus), !.help = Help_open(a.help),
                      !.focus = f]

\* App::set_focus
set_focus(a, f) ==
    CASE f = "ItemList" ->
            [a EXCEPT !.item_list.focused = TRUE, !.content.focused = FALSE,
                      !.help = Help_close(a.help), !.focus = f]
      [] f = "Content" ->
            [a EXCEPT !.item_list.focused = FALSE, !.content.focused = TRUE,
                      !.help = Help_close(a.help), !.focus = f]
      [] f = "Help" ->
            [a EXCEPT !.item_list.focused = FALSE, !.content.focused = FALSE,
                      !.prev_focus = Some(a.focus), !.help = Help_open(a.help),
                      !.focus = f]

\* Option::unwrap_or
unwrap_or(option, default) == IF option = None THEN default ELSE option[1]

\* the "Move focus" match of App::handle_event
move_focus(a, event) ==
    LET ignored == [app |-> a, state |-> "Ignored"]
        moved(f) == [app |-> set_focus(a, f), state |-> "Handled"]
    IN  CASE event.type = "Keyboard" /\ event.arg = "Back" ->
                (CASE a.focus = "ItemList" -> ignored
                   [] a.focus = "Content" -> moved("ItemList")
                   [] a.focus = "Help" -> moved(unwrap_or(a.prev_focus, "ItemList")))
          [] event.type = "Keyboard" /\ event.arg = "Left" ->
                IF a.focus = "Content" THEN moved("ItemList") ELSE ignored
          [] event.type = "Keyboard" /\ event.arg = "Right" ->
                IF a.focus = "ItemList" THEN moved("Content") ELSE ignored
          [] event.type = "Keyboard" /\ event.arg = "Help" -> moved("Help")
          [] event.type = "StartLoadingItem" ->
                IF a.focus = "ItemList" THEN moved("Content") ELSE ignored
          [] OTHER -> ignored

\* what the components returned for one event ("Skipped": not asked)
Returned(il, c, t, f) == [item_list |-> il, content |-> c, toast |-> t, focus |-> f]

\* where App::handle_event stands: the App so far, res_state, whether a
\* component panicked, and what each component has returned
Handling(a, res_state, panic, returned) ==
    [app |-> a, state |-> res_state, panic |-> panic, returned |-> returned]

\* let mut res_state = self.item_list.handle_event(event), r being what the
\* item list leaves behind
item_list_handled(a, r) ==
    Handling([a EXCEPT !.item_list = r.item_list, !.data_loader = r.data_loader,
                       !.event_bus = r.event_bus, !.tasks = r.tasks],
             r.state, r.panic, Returned(r.state, "Skipped", "Skipped", "Skipped"))

\* res_state = res_state.or(&state) after self.content.handle_event(event)
content_handled(h, r) ==
    Handling([h.app EXCEPT !.content = r.content], or(h.state, r.state), FALSE,
             [h.returned EXCEPT !.content = r.state])

\* res_state = res_state.or(&state) after self.toast.handle_event(event)
toast_handled(h, r) ==
    Handling([h.app EXCEPT !.toast = r.toast], or(h.state, r.state), FALSE,
             [h.returned EXCEPT !.toast = r.state])

\* res_state.or(&state) after the "Move focus" match
focus_moved(h, r) ==
    Handling(r.app, or(h.state, r.state), FALSE, [h.returned EXCEPT !.focus = r.state])

\* the statements of App::handle_event from the "Move focus" match on
handle_event_focus(h, event) == focus_moved(h, move_focus(h.app, event))

\* the statements of App::handle_event from the toast on
handle_event_toast(h, event) ==
    handle_event_focus(toast_handled(h, Toast_handle_event(h.app.toast, event)), event)

\* the statements of App::handle_event from the content on
handle_event_content(h, event) ==
    handle_event_toast(content_handled(h, Content_handle_event(h.app.content, event)),
                       event)

\* a variant of App::handle_event that stops once the item list has handled
\* the event
handle_event_components_first_only(h, event) ==
    IF h.panic \/ h.state = "Handled" THEN h ELSE handle_event_content(h, event)

\* the statements of App::handle_event after the item list's: every component
\* is asked, unless the item list panicked
handle_event_components(h, event) ==
    IF h.panic THEN h ELSE handle_event_content(h, event)

\* App::handle_event
App_handle_event(a, event, fetched) ==
    handle_event_components(
        item_list_handled(a, ItemList_handle_event(a.item_list, event, a.data_loader,
                                                   a.event_bus, a.tasks, fetched)),
        event)

-----------------------------------------------------------------------------
\* Drawing

\* a - b on usize: the build either panics on overflow or wraps
usize_sub(a, b) ==
    IF a >= b THEN [value |-> a - b, panic |-> FALSE]
    ELSE IF overflow_checks THEN [value |-> 0, panic |-> TRUE]
         ELSE [value |-> USIZE_MAX - (b - a - 1), panic |-> FALSE]

\* item_to_list_item for an item without pub_date: the title is wrapped to
\* width - 1 and the channel name to width - 2
item_to_list_item(it, width, config) ==
    [title |-> it.id,
     mark |-> IF config.disable_read_status THEN "" ELSE IF it.read THEN "[X] " ELSE "[ ] ",
     title_width |-> usize_sub(width, 1).value,
     channel_width |-> usize_sub(width, 2).value]

\* ItemList::recalculate_render_cache
ItemList_recalculate_render_cache(il, loader, width) ==
    IF loader.poisoned
       \/ (loader.items # <<>> /\ (usize_sub(width, 1).panic \/ usize_sub(width, 2).panic))
    THEN [item_list |-> il, panic |-> TRUE]
    ELSE [item_list |->
              [il EXCEPT !.render_cache =
                  Some([list |-> [i \in 1..Len(loader.items) |->
                                    item_to_list_item(loader.items[i], width, il.config)],
                        width |-> width,
                        version |-> loader.version])],
          panic |-> FALSE]

\* ItemList::get_render_cache
ItemList_get_render_cache(il, loader, width) ==
    IF il.render_cache # None /\ loader.poisoned THEN [item_list |-> il, panic |-> TRUE]
    ELSE IF \/ il.render_cache = None
            \/ il.render_cache[1].width # width
            \/ il.render_cache[1].version # loader.version
         THEN ItemList_recalculate_render_cache(il, loader, width)
         ELSE [item_list |-> il, panic |-> FALSE]

\* List's stateful render: an empty list selects nothing, a selection past the
\* end moves to the last item
clamp_selected(selected, nr_items) ==
    IF nr_items = 0 THEN None
    ELSE IF selected # None /\ selected[1] >= nr_items THEN Some(nr_items - 1)
         ELSE selected

\* the statements of ItemList::draw after get_render_cache, r being what
\* get_render_cache leaves behind: nothing is rendered for an empty list
ItemList_render_list(r) ==
    IF r.panic THEN [item_list |-> r.item_list, list |-> <<>>, panic |-> TRUE]
    ELSE IF Len(r.item_list.render_cache[1].list) = 0
         THEN [item_list |-> r.item_list, list |-> <<>>, panic |-> FALSE]
         ELSE [item_list |->
                   [r.item_list EXCEPT
                       !.selected = clamp_selected(@, Len(r.item_list.render_cache[1].list))],
               list |-> r.item_list.render_cache[1].list, panic |-> FALSE]

\* ItemList::draw on a list area of the given width
ItemList_draw(il, loader, width) ==
    ItemList_render_list(ItemList_get_render_cache(il, loader, width))

\* ContentStateData::recalculate_render_cache
Content_recalculate_render_cache(data, width) ==
    LET w == usize_sub(width, 2)
    IN  IF w.panic THEN [data |-> data, panic |-> TRUE]
        ELSE [data |-> [data EXCEPT !.render_cache =
                           Some([lines |-> render_lines(data.raw_text, w.value),
                                 render_width |-> width])],
              panic |-> FALSE]

\* a variant of get_render_cache that keeps a cache of another width
Content_get_render_cache_any_width(data, width) ==
    IF data.render_cache = None THEN Content_recalculate_render_cache(data, width)
    ELSE [data |-> data, panic |-> FALSE]

\* ContentStateData::get_render_cache
Content_get_render_cache(data, width) ==
    IF data.render_cache = None \/ data.render_cache[1].render_width # width
    THEN Content_recalculate_render_cache(data, width)
    ELSE [data |-> data, panic |-> FALSE]

\* the statements of ContentStateData::draw after get_render_cache, r being
\* what get_render_cache leaves behind
Content_render_lines(c, r) ==
    IF r.panic THEN [content |-> c, lines |-> None, panic |-> TRUE]
    ELSE [content |-> [c EXCEPT !.state = r.data],
          lines |-> Some(r.data.render_cache[1].lines),
          panic |-> FALSE]

\* Content::draw on an area of the given width: the lines put on the screen
Content_draw(c, width) ==
    IF c.state.tag # "Data" THEN [content |-> c, lines |-> None, panic |-> FALSE]
    ELSE Content_render_lines(c, Content_get_render_cache(c.state, width))

\* the areas of a terminal of the given width: a third for the item list
\* (less its border), the rest but one column for the content
layout(frame_width) ==
    LET rest == saturating_sub(frame_width, 1)
        left == rest \div 3
    IN  [list_width |-> saturating_sub(left, 2), content_width |-> rest - left]

\* what App::draw leaves behind, r1 and r2 being what the item list and the
\* content have drawn into their areas
App_drawn(a, areas, r1, r2) ==
    [app |-> [a EXCEPT !.item_list = r1.item_list, !.content = r2.content],
     terminal |-> [drawn |-> TRUE, list_width |-> areas.list_width,
                   content_width |-> areas.content_width,
                   list |-> r1.list, lines |-> r2.lines],
     panic |-> r1.panic \/ r2.panic]

\* App::draw
App_draw(a, frame_width) ==
    App_drawn(a, layout(frame_width),
              ItemList_draw(a.item_list, a.data_loader, layout(frame_width).list_width),
              Content_draw(a.content, layout(frame_width).content_width))

-----------------------------------------------------------------------------
\* The application running: run() of main.rs receives one event after the
\* other, lets App handle it and draws if it was handled; the event task sends
\* keys and ticks, the refresh task and the item loads send their results.

\* the items load_data may find on disk
InitialItems == { <<>>, <<Item("y", 2, TRUE), Item("x", 1, FALSE)>> }

\* what the channels may give a refresh, in channel order
Feeds == { <<>>,
           <<Item("x", 1, FALSE), Item("z", 3, FALSE), Item("y", 2, FALSE)>> }

\* the terminal widths tried: the narrowest ones, and the widest
FrameWidths == {1, 3, MaxFrame}

InitApp ==
    /\ html = ParseDocument(<<>>)
    /\ max_width = 1
    /\ pc = "idle"
    /\ out = <<>>
    /\ calls = 0
    /\ first_run = <<>>
    /\ renderer = <<>>
    /\ focus = "ItemList"
    /\ prev_focus = None
    /\ \E drs \in BOOLEAN : item_list = ItemList_new(TRUE, AppConfig(drs, FALSE))
    /\ content = Content_new(FALSE)
    /\ toast = Toast_new
    /\ help = Help_new
    /\ \E items \in InitialItems : data_loader = DataLoader_new(items)
    /\ event_bus = <<>>
    /\ tasks = [refresh |-> "spawned", loads |-> <<>>, entered |-> None, browser |-> None,
                keys |-> 0, ticks |-> 0]
    /\ run = [pc |-> "next", saved |-> None, returned |-> None]
    /\ terminal = Terminal_init
    /\ overflow_checks \in BOOLEAN

Running == run.pc \in {"next", "draw"}

\* the new state of the application, from the value a handler gives back
SetApp(a) ==
    /\ focus' = a.focus
    /\ prev_focus' = a.prev_focus
    /\ item_list' = a.item_list
    /\ content' = a.content
    /\ toast' = a.toast
    /\ help' = a.help
    /\ data_loader' = a.data_loader
    /\ event_bus' = a.event_bus
    /\ tasks' = a.tasks

\* run() after app.handle_event: draw if handled, save and leave on an
\* unhandled Back, else wait for the next event
after_handle(r, event) ==
    IF r.panic THEN [pc |-> "panicked", saved |-> None, returned |-> Some(r.returned)]
    ELSE IF r.state = "Handled"
         THEN [pc |-> "draw", saved |-> None, returned |-> Some(r.returned)]
    ELSE IF event = Keyboard("Back")
         THEN IF r.app.data_loader.poisoned
              THEN [pc |-> "panicked", saved |-> None, returned |-> Some(r.returned)]
              ELSE [pc |-> "exited", saved |-> Some(r.app.data_loader.items),
                    returned |-> Some(r.returned)]
    ELSE [pc |-> "next", saved |-> None, returned |-> Some(r.returned)]

\* the state once app.handle_event has returned r for the event
Handled(r, event) ==
    /\ SetApp(r.app)
    /\ run' = after_handle(r, event)

\* a handler that reaches tokio::spawn of the Enter arm
spawns_load(a, event) ==
    /\ event = Keyboard("Enter")
    /\ a.item_list.focused
    /\ a.item_list.selected # None
    /\ can_index(a.data_loader, a.item_list.selected[1])

\* the spawned load sends LoadedItem(text) before the handler, on its way
\* from tokio::spawn to event_tx.send, has sent StartLoadingItem
loaded_in_the_gap(r, text) ==
    [r EXCEPT !.app.event_bus = SubSeq(@, 1, Len(@) - 1)
                                    \o <<LoadedItem(text), StartLoadingItem>>,
              !.app.tasks.loads = SubSeq(@, 1, Len(@) - 1)]

\* the loop takes an Enter key and the load it spawns is done, on another
\* worker of the runtime, before the handler sends StartLoadingItem
HandleEventLoadRacing ==
    /\ run.pc = "next"
    /\ event_bus # <<>>
    /\ spawns_load(AppState, Head(event_bus))
    /\ LET r == App_handle_event([AppState EXCEPT !.event_bus = Tail(event_bus)],
                                 Head(event_bus), None)
       IN  /\ ~r.panic
           /\ \E text \in {r.app.tasks.loads[Len(r.app.tasks.loads)], FailedLoading} :
                  Handled(loaded_in_the_gap(r, text), Head(event_bus))
    /\ UNCHANGED <<terminal, overflow_checks>>
    /\ UNCHANGED rendervars

\* one turn of the loop of run(): event_bus.next() and app.handle_event
HandleEvent ==
    /\ run.pc = "next"
    /\ event_bus # <<>>
    /\ Handled(App_handle_event([AppState EXCEPT !.event_bus = Tail(event_bus)],
                                Head(event_bus), None),
               Head(event_bus))
    /\ UNCHANGED <<terminal, overflow_checks>>
    /\ UNCHANGED rendervars

\* whether the handler of the event drops the data lock and calls set_read
reaches_set_read(a, event) ==
    /\ event.type = "Keyboard"
    /\ \/ event.arg = "Open" /\ ~a.item_list.config.disable_browser_open
       \/ event.arg \in {"Enter", "Space"} /\ a.item_list.focused
    /\ ~(event.arg = "Open" /\ a.item_list.config.disable_browser_open)
    /\ a.item_list.selected # None
    /\ can_index(a.data_loader, a.item_list.selected[1])
    /\ ~a.item_list.config.disable_read_status

\* the same turn, with the refresh task storing its items while the handler
\* is between dropping the data lock and set_read
HandleEventRacing ==
    /\ run.pc = "next"
    /\ event_bus # <<>>
    /\ tasks.refresh = "fetching"
    /\ reaches_set_read(AppState, Head(event_bus))
    /\ \E feed \in Feeds :
          Handled(App_handle_event([AppState EXCEPT !.event_bus = Tail(event_bus),
                                                    !.tasks.refresh = "stored"],
                                   Head(event_bus), Some(feed)),
                  Head(event_bus))
    /\ UNCHANGED <<terminal, overflow_checks>>
    /\ UNCHANGED rendervars

\* the state once app.draw has returned r
Drawn(r) ==
    /\ SetApp(r.app)
    /\ terminal' = r.terminal
    /\ run' = [run EXCEPT !.pc = IF r.panic THEN "panicked" ELSE "next"]

\* terminal.draw(|f| app.draw(f)) on a terminal of some width
Draw ==
    /\ run.pc = "draw"
    /\ \E frame_width \in FrameWidths :
          Drawn(App_draw(AppState, frame_width))
    /\ UNCHANGED overflow_checks
    /\ UNCHANGED rendervars

\* the part of the state the tasks do not touch
UNCHANGED_by_tasks ==
    /\ UNCHANGED <<focus, prev_focus, item_list, content, toast, help, run, terminal,
                   overflow_checks>>
    /\ UNCHANGED rendervars

\* the event task reads a key and sends its KeyboardEvent
SendKey ==
    /\ Running
    /\ tasks.keys < MaxKeys
    /\ Len(event_bus) < MaxQueue
    /\ \E key \in KeyboardEvent :
          event_bus' = send(event_bus, Keyboard(key))
    /\ tasks' = [tasks EXCEPT !.keys = @ + 1]
    /\ UNCHANGED data_loader
    /\ UNCHANGED_by_tasks

\* the event task sends a Tick
SendTick ==
    /\ Running
    /\ tasks.ticks < MaxTicks
    /\ Len(event_bus) < MaxQueue
    /\ event_bus' = send(event_bus, Tick)
    /\ tasks' = [tasks EXCEPT !.ticks = @ + 1]
    /\ UNCHANGED data_loader
    /\ UNCHANGED_by_tasks

\* the task App::new spawns: the Loading toast, then loader.refresh()
RefreshStart ==
    /\ Running
    /\ tasks.refresh = "spawned"
    /\ event_bus' = send(event_bus, ToastEvent("Loading"))
    /\ tasks' = [tasks EXCEPT !.refresh = "fetching"]
    /\ UNCHANGED data_loader
    /\ UNCHANGED_by_tasks

\* the state once refresh has stored its items, or panicked doing so
Stored(r) ==
    /\ data_loader' = r.loader
    /\ tasks' = [tasks EXCEPT !.refresh = IF r.panic THEN "done" ELSE "stored"]

\* refresh with every channel fetched: the items are stored
RefreshStore ==
    /\ Running
    /\ tasks.refresh = "fetching"
    /\ \E feed \in Feeds :
          Stored(refresh_ok(data_loader, feed))
    /\ UNCHANGED event_bus
    /\ UNCHANGED_by_tasks

\* RefreshStatus::Ok: the toast is hidden
RefreshHide ==
    /\ Running
    /\ tasks.refresh = "stored"
    /\ event_bus' = send(event_bus, ToastEvent("Hide"))
    /\ tasks' = [tasks EXCEPT !.refresh = "done"]
    /\ UNCHANGED data_loader
    /\ UNCHANGED_by_tasks

\* what join_all may give when a channel fails, the other fetched or not
FailedFetches ==
    { <<Err, Err>>,
      <<Ok(<<>>), Err>>,
      <<Ok(<<Item("x", 1, FALSE), Item("z", 3, FALSE)>>), Err>>,
      <<Err, Ok(<<Item("y", 2, FALSE)>>)>> }

\* the state once refresh has returned r
Refreshed(r) ==
    /\ data_loader' = r.loader
    /\ tasks' = [tasks EXCEPT !.refresh = CASE r.status = "Ok" -> "stored"
                                            [] r.status = "Error" -> "failed"
                                            [] OTHER -> "done"]

\* refresh with a channel that failed
RefreshFail ==
    /\ Running
    /\ tasks.refresh = "fetching"
    /\ \E res \in FailedFetches :
          Refreshed(refresh(data_loader, res))
    /\ UNCHANGED event_bus
    /\ UNCHANGED_by_tasks

\* RefreshStatus::Error: the Error toast
RefreshError ==
    /\ Running
    /\ tasks.refresh = "failed"
    /\ event_bus' = send(event_bus, ToastEvent("Error"))
    /\ tasks' = [tasks EXCEPT !.refresh = "done"]
    /\ UNCHANGED data_loader
    /\ UNCHANGED_by_tasks

\* s without its i-th element
RemoveAt(s, i) == SubSeq(s, 1, i - 1) \o SubSeq(s, i + 1, Len(s))

\* a task spawned by Enter ends: load_item gives the article or the failure
\* text, and LoadedItem is sent
LoadDone ==
    /\ Running
    /\ \E i \in 1..Len(tasks.loads) : \E text \in {tasks.loads[i], FailedLoading} :
          /\ event_bus' = send(event_bus, LoadedItem(text))
          /\ tasks' = [tasks EXCEPT !.loads = RemoveAt(@, i)]
    /\ UNCHANGED data_loader
    /\ UNCHANGED_by_tasks

NextApp ==
    \/ HandleEvent
    \/ HandleEventRacing
    \/ HandleEventLoadRacing
    \/ Draw
    \/ SendKey
    \/ SendTick
    \/ RefreshStart
    \/ RefreshStore
    \/ RefreshHide
    \/ RefreshFail
    \/ RefreshError
    \/ LoadDone

SpecApp == InitApp /\ [][NextApp]_vars

-----------------------------------------------------------------------------
\* Claims about the application

\* the lines render gives for the content now held, at the width Content
\* passes for the content area last drawn
C12_Expected == render_lines(content.state.raw_text, usize_sub(terminal.content_width, 2).value)

C13_ValidWidth ==
    [][(run.pc = "draw" /\ content.state.tag = "Data") =>
          /\ ~Content_draw(content, terminal'.content_width).panic
          /\ terminal'.content_width >= 2
          /\ content'.state.render_cache # None
          /\ content'.state.render_cache[1].lines.max_width >= 1]_vars

-----------------------------------------------------------------------------
\* The loader and the item list late in a session: the version counts every
\* change since the start, so it may stand anywhere in the u16 range when the
\* next key is pressed

\* the versions tried: a fresh loader, and one two changes from the largest u16
Versions == {0, U16_MAX - 1}

\* the widths of the list area for the terminals of FrameWidths
ListWidths == {layout(fw).list_width : fw \in FrameWidths}

InitLoader ==
    /\ html = ParseDocument(<<>>)
    /\ max_width = 1
    /\ pc = "idle"
    /\ out = <<>>
    /\ calls = 0
    /\ first_run = <<>>
    /\ renderer = <<>>
    /\ focus = "ItemList"
    /\ prev_focus = None
    /\ item_list = ItemList_new(TRUE, AppConfig_default)
    /\ content = Content_new(FALSE)
    /\ toast = Toast_new
    /\ help = Help_new
    /\ \E items \in InitialItems : \E version \in Versions :
          data_loader = [DataLoader_new(items) EXCEPT !.version = version]
    /\ event_bus = <<>>
    /\ tasks = [refresh |-> "fetching", loads |-> <<>>, entered |-> None, browser |-> None,
                keys |-> 0, ticks |-> 0]
    /\ run = [pc |-> "next", saved |-> None, returned |-> None]
    /\ terminal = Terminal_init
    /\ overflow_checks \in BOOLEAN

\* what the calls on the loader leave alone
UNCHANGED_by_loader ==
    /\ UNCHANGED <<focus, prev_focus, content, toast, help, event_bus, run, overflow_checks>>
    /\ UNCHANGED rendervars

\* self.data_loader.set_read(selected, read), as a key handler calls it
SetRead ==
    /\ ~data_loader.poisoned
    /\ tasks.keys < MaxKeys
    /\ \E index \in 0..(Len(data_loader.items) - 1) : \E read \in BOOLEAN :
          data_loader' = set_read(data_loader, index, read).loader
    /\ tasks' = [tasks EXCEPT !.keys = @ + 1]
    /\ UNCHANGED <<item_list, terminal>>
    /\ UNCHANGED_by_loader

\* loader.refresh() with every channel fetched
Refresh ==
    /\ ~data_loader.poisoned
    /\ tasks.refresh = "fetching"
    /\ \E feed \in Feeds : data_loader' = refresh_ok(data_loader, feed).loader
    /\ tasks' = [tasks EXCEPT !.refresh = "done"]
    /\ UNCHANGED <<item_list, terminal>>
    /\ UNCHANGED_by_loader

\* the state once the item list has drawn r into an area of the given width
ListDrawn(r, width) ==
    /\ ~r.panic
    /\ item_list' = r.item_list
    /\ terminal' = [terminal EXCEPT !.drawn = TRUE, !.list_width = width, !.list = r.list]

\* self.item_list.draw(frame, layout[0])
DrawList ==
    /\ ~data_loader.poisoned
    /\ \E width \in ListWidths : ListDrawn(ItemList_draw(item_list, data_loader, width), width)
    /\ UNCHANGED <<data_loader, tasks>>
    /\ UNCHANGED_by_loader

NextLoader ==
    \/ SetRead
    \/ Refresh
    \/ RefreshFail
    \/ RefreshError
    \/ DrawList

SpecLoader == InitLoader /\ [][NextLoader]_vars

\* the list a cache of the given width holds when built from the items now held
C14_ListNow(width) ==
    [i \in 1..Len(data_loader.items) |->
        item_to_list_item(data_loader.items[i], width, item_list.config)]

\* a cache whose version is the current one holds the current items and flags
C14_CacheFresh ==
    (item_list.render_cache # None /\ ~data_loader.poisoned
        /\ item_list.render_cache[1].version = data_loader.version) =>
            item_list.render_cache[1].list = C14_ListNow(item_list.render_cache[1].width)

\* C14: every call that changes the loader (set_read, a refresh that stores)
\* leaves a larger get_version() behind, and after every step a cache whose
\* version is the current one shows the current items and read flags.
C14_DataVersion ==
    [][/\ data_loader' # data_loader =>
              /\ ~data_loader'.poisoned
              /\ data_loader'.version > data_loader.version
       /\ C14_CacheFresh']_vars

-----------------------------------------------------------------------------
\* what of an App shows on the screen: the focus, the components, the items
Visible(a) ==
    [focus |-> a.focus, item_list |-> a.item_list, content |-> a.content,
     toast |-> a.toast, help |-> a.help, items |-> a.data_loader.items]

\* whether some component returned Handled, whether one was not asked
SomeHandled(ret) ==
    "Handled" \in {ret.item_list, ret.content, ret.toast, ret.focus}
SomeSkipped(ret) ==
    "Skipped" \in {ret.item_list, ret.content, ret.toast, ret.focus}

\* C15 for the event at the head of the bus: what handle_event gives for it
C15_Delivered(a, event, r) ==
    ~r.panic =>
        /\ ~SomeSkipped(r.returned)
        /\ r.state = "Handled" <=> SomeHandled(r.returned)
        /\ Visible(r.app) # Visible(a) => r.state = "Handled"
        /\ r.state = "Handled" => after_handle(r, event).pc = "draw"

\* C15: App::handle_event asks the item list, the content, the toast and the
\* focus logic about every event, whatever the earlier ones returned; it
\* returns Handled exactly when one of them did; an event that changes what
\* is visible yields Handled, and the loop then draws.  Stated for the event
\* the loop is about to take and for the one it has just handled.
C15_EventDelivery ==
    /\ (run.pc = "next" /\ event_bus # <<>>) =>
           C15_Delivered([AppState EXCEPT !.event_bus = Tail(event_bus)],
                         Head(event_bus),
                         App_handle_event([AppState EXCEPT !.event_bus = Tail(event_bus)],
                                          Head(event_bus), None))
    /\ (run.returned # None /\ run.pc # "panicked") =>
           /\ ~SomeSkipped(run.returned[1])
           /\ run.pc = "draw" => SomeHandled(run.returned[1])
           /\ run.pc = "exited" => ~SomeHandled(run.returned[1])

\* C15 happens: StartLoadingItem was handled by the content and, after it,
\* by the focus logic, and the loop is about to draw
C15_Witness ==
    /\ run.pc = "draw"
    /\ run.returned # None
    /\ run.returned[1].item_list = "Ignored"
    /\ run.returned[1].content = "Handled"
    /\ run.returned[1].focus = "Handled"
    /\ content.state.tag = "Loading"
    /\ focus = "Content"

-----------------------------------------------------------------------------
\* The application driven by the keys that move the focus only, so that three
\* of them fit in one behaviour
FocusKeys == {"Back", "Left", "Right", "Help"}

SendFocusKey ==
    /\ Running
    /\ tasks.keys < MaxFocusKeys
    /\ Len(event_bus) < MaxQueue
    /\ \E key \in FocusKeys :
          event_bus' = send(event_bus, Keyboard(key))
    /\ tasks' = [tasks EXCEPT !.keys = @ + 1]
    /\ UNCHANGED data_loader
    /\ UNCHANGED_by_tasks

NextFocus ==
    \/ HandleEvent
    \/ Draw
    \/ SendFocusKey
    \/ SendTick
    \/ RefreshStart
    \/ RefreshStore
    \/ RefreshHide
    \/ RefreshFail
    \/ RefreshError

SpecFocus == InitApp /\ [][NextFocus]_vars

\* the answer of every component to the last event
AllIgnored(ret) ==
    ret = Returned("Ignored", "Ignored", "Ignored", "Ignored")

\* C16 for a Back key at the head of the bus: a is the App that takes it, r
\* what handle_event gives, next what the loop does then
C16_Back(a, r, next) ==
    /\ ~r.panic
    /\ a.focus = "Content" =>
          /\ r.app.focus = "ItemList" /\ r.app.item_list.focused /\ ~r.app.content.focused
          /\ r.state = "Handled" /\ next.pc = "draw"
    /\ a.focus = "Help" =>
          /\ ~r.app.help.open /\ r.app.focus = unwrap_or(a.prev_focus, "ItemList")
          /\ r.state = "Handled" /\ next.pc = "draw"
    /\ a.focus = "ItemList" =>
          /\ AllIgnored(r.returned) /\ r.state = "Ignored"
          /\ next.pc = "exited" /\ next.saved = Some(a.data_loader.items)

\* C16: a Back key with focus Content moves the focus to the item list and
\* with focus Help closes the help, both Handled, so the loop draws and goes
\* on; with focus ItemList every component ignores it and the loop saves the
\* data and ends; and the loop has ended only after such a Back.
C16_BackExits ==
    /\ (run.pc = "next" /\ event_bus # <<>> /\ Head(event_bus) = Keyboard("Back")) =>
           C16_Back([AppState EXCEPT !.event_bus = Tail(event_bus)],
                    App_handle_event([AppState EXCEPT !.event_bus = Tail(event_bus)],
                                     Head(event_bus), None),
                    after_handle(App_handle_event([AppState EXCEPT
                                                      !.event_bus = Tail(event_bus)],
                                                  Head(event_bus), None),
                                 Head(event_bus)))
    /\ run.pc = "exited" =>
           /\ focus = "ItemList" /\ ~help.open
           /\ AllIgnored(run.returned[1])
           /\ run.saved = Some(data_loader.items)
    /\ run.pc # "exited" => run.saved = None

-----------------------------------------------------------------------------
\* the read flag of the item with the given id (FALSE if there is none)
read_of(items, id) == \E i \in 1..Len(items) : items[i].id = id /\ items[i].read

\* whether the loop is about to take a Space key with the item list focused
\* and an item of the list selected
SpaceOnItem ==
    /\ run.pc = "next"
    /\ event_bus # <<>>
    /\ Head(event_bus) = Keyboard("Space")
    /\ item_list.focused
    /\ item_list.selected # None
    /\ can_index(data_loader, item_list.selected[1])

\* the selected item
SelectedItem == data_loader.items[item_list.selected[1] + 1]

\* C17: when the loop handles a Space key with the item list focused and an
\* item selected, then with read status enabled the handler returns, the read
\* flag of that item is flipped and every other item keeps its flag, and with
\* read status disabled the items and the version are unchanged.
C17_SpaceFlips ==
    [][(SpaceOnItem /\ run'.pc # "next") =>
          IF item_list.config.disable_read_status
          THEN data_loader' = data_loader
          ELSE /\ run'.pc # "panicked"
               /\ \A i \in 1..Len(data_loader'.items) :
                     data_loader'.items[i].read =
                        IF data_loader'.items[i].id = SelectedItem.id
                        THEN ~SelectedItem.read
                        ELSE read_of(data_loader.items, data_loader'.items[i].id)]_vars

-----------------------------------------------------------------------------
\* Claims about the flow of blocks and inline content

\* an element rendered by the arm of every other element
IsGenericElement(n) ==
    n.kind = "Element" /\ n.name \notin {"a", "span", "strong", "script", "ul", "ol", "code"}

\* a text, or a chain of generic elements over texts
RECURSIVE BlocksOnly(_)
BlocksOnly(n) ==
    \/ n.kind = "Text"
    \/ IsGenericElement(n) /\ \A i \in 1..Len(n.children) : BlocksOnly(n.children[i])

GenericElements(tree) == SelectSeq(Dfs(tree), IsGenericElement)

\* the first of the nodes that renders content, as <<node>>, or <<>>
RECURSIVE FirstRendered(_)
FirstRendered(chs) ==
    IF chs = <<>> THEN <<>>
    ELSE IF is_rendered(render_node(Head(chs), <<>>, Context(Inline, 0, FALSE)).status)
         THEN <<Head(chs)>>
         ELSE FirstRendered(Tail(chs))

RECURSIVE Sum(_)
Sum(ns) == IF ns = <<>> THEN 0 ELSE Head(ns) + Sum(Tail(ns))

\* the blocks below and including n whose first content is their own text
RECURSIVE ParagraphBreaks(_)
ParagraphBreaks(n) ==
    IF n.kind = "Text" THEN 0
    ELSE (IF FirstRendered(n.children) # <<>> /\ FirstRendered(n.children)[1].kind = "Text"
          THEN 1 ELSE 0)
         + Sum([i \in 1..Len(n.children) |-> ParagraphBreaks(n.children[i])])

\* the output of the children of a block, each rendered on its own under the
\* context the rule gives it: NewParagraph merged in until one has rendered,
\* then Inline after Rendered and RequiresSpace after RenderedRequiresSpace
RECURSIVE Joined(_, _, _)
Joined(chs, ctx, last) ==
    IF chs = <<>> THEN <<>>
    ELSE LET passed ==
                 CASE last = "NotRendered" -> merge(ctx, NewParagraph)
                   [] last = "Rendered" -> [ctx EXCEPT !.context_type = Inline]
                   [] last = "RenderedRequiresSpace" ->
                         [ctx EXCEPT !.context_type = RequiresSpace]
             r == render_node(Head(chs), <<>>, passed)
         IN  r.res \o Joined(Tail(chs), ctx, IF is_rendered(r.status) THEN r.status ELSE last)

FlowContextTypes == {Inline, RequiresSpace, NewParagraph}

\* C18: a chain of nested generic blocks over text, under a flow context,
\* emits one paragraph break (two new lines) per block whose first content is
\* its own text and none for the nesting itself, the first one ahead of all
\* content; and every generic block renders its children under NewParagraph
\* until one has rendered, then Inline after a Rendered child and
\* RequiresSpace after a RenderedRequiresSpace child.
C18_OneParagraphBreak ==
    pc = "done" =>
        \A i \in 1..Len(GenericElements(html)) :
            LET e == GenericElements(html)[i]
            IN  /\ BlocksOnly(e) =>
                      \A ct \in FlowContextTypes :
                          LET r == render_node(e, <<>>, Context(ct, 0, FALSE))
                          IN  /\ CountOf(r.res, NL) = 2 * ParagraphBreaks(e)
                              /\ is_rendered(r.status) =>
                                    /\ IsPrefix(<<NL, NL>>, r.res)
                                    /\ Len(r.res) > 2 /\ r.res[3] # NL
                /\ ~HasElementNamed(e, {"code"}) =>
                      \A ct \in ContextTypes :
                          render_node(e, <<>>, Context(ct, 0, FALSE)).res
                              = Joined(e.children, Context(ct, 0, FALSE), "NotRendered")

\* C18 happens: <div><div><div>a</div></div></div><div>b</div> is rendered
\* with one paragraph break ahead of each of the two blocks
C18_Witness ==
    /\ pc = "done"
    /\ html = ParseDocument(<<Elem("div", <<Elem("div", <<Elem("div", <<Text(<<"a">>)>>)>>)>>),
                              Elem("div", <<Text(<<"b">>)>>)>>)
    /\ out = <<NL, NL, "a", NL, NL, "b", NL>>

-----------------------------------------------------------------------------
\* the modifiers and the contexts merge is tried on
Modifiers == {Inline, RequiresSpace, NewParagraph, UnorderedList, OrderedList(1), OrderedList(2)}
Indents == {0, 2, 4}
Contexts == {Context(ct, indent, kps) : ct \in Modifiers, indent \in Indents, kps \in BOOLEAN}

\* Inline < RequiresSpace < NewParagraph < the list modifiers
Rank(m) ==
    CASE m.tag = "Inline" -> 0
      [] m.tag = "RequiresSpace" -> 1
      [] m.tag = "NewParagraph" -> 2
      [] m.tag \in {"UnorderedList", "OrderedList"} -> 3

IsListModifier(m) == m.tag \in {"UnorderedList", "OrderedList"}

\* C19: once a document is rendered, for every context and modifier the walk
\* may meet, merge keeps the current modifier when it ranks strictly higher
\* than the incoming one and adopts the incoming one otherwise; the indent
\* grows by one list level (two columns) exactly when a list modifier is
\* adopted, and keep_prefix_space is unchanged.
C19_PrecedenceMerge ==
    pc = "done" =>
        \A ctx \in Contexts : \A m \in Modifiers :
            LET merged == merge(ctx, m)
                adopted == ~(Rank(ctx.context_type) > Rank(m))
            IN  /\ merged.context_type = IF adopted THEN m ELSE ctx.context_type
                /\ merged.indent = IF adopted /\ IsListModifier(m) THEN ctx.indent + 2
                                   ELSE ctx.indent
                /\ merged.keep_prefix_space = ctx.keep_prefix_space
                /\ DOMAIN merged = DOMAIN ctx

\* C19 happens: <ul><li>a<ul><li>b</li></ul></li></ul><p>c</p> is rendered;
\* the nested list adopts a list modifier twice and the paragraph after it
\* starts again at indent 0
C19_Witness ==
    /\ pc = "done"
    /\ html = ParseDocument(<<Elem("ul", <<Elem("li", <<Text(<<"a">>),
                                  Elem("ul", <<Elem("li", <<Text(<<"b">>)>>)>>)>>)>>),
                              Elem("p", <<Text(<<"c">>)>>)>>)
    /\ out = <<NL, SP, SP, "-", SP, "a", NL, SP, SP, SP, SP, "-", SP, "b",
               NL, NL, "c", NL>>

-----------------------------------------------------------------------------
\* the text nodes and inline elements whose source text touches white space
EndsWithSpace(t) == t # <<>> /\ t[Len(t)] = SP
StartsWithSpace(t) == t # <<>> /\ t[1] = SP
IsInlineElement(n) == n.kind = "Element" /\ n.name \in {"strong", "span", "a"}

\* the output of a block whose children are one after the other
BlockOutput(kids) ==
    render_node(Elem("p", kids), <<>>, Context(NewParagraph, 0, FALSE)).res

\* C20: in a block, a text that ends in white space followed by an inline
\* element with content, or such an element followed by a text that starts
\* with white space, is rendered with a space between the two pieces.
C20_InlineJoining ==
    pc = "done" =>
        \A i \in 1..Len(GenericElements(html)) :
            LET kids == GenericElements(html)[i].children
            IN  \A k \in 1..(Len(kids) - 1) :
                    LET left == kids[k]
                        right == kids[k + 1]
                        both == BlockOutput(<<left, right>>)
                        first == BlockOutput(<<left>>)
                    IN  /\ (/\ left.kind = "Text" /\ EndsWithSpace(left.text)
                            /\ trim(left.text) # <<>>
                            /\ IsInlineElement(right) /\ HasContent(right)) =>
                               /\ IsPrefix(first, both)
                               /\ Len(both) > Len(first)
                               /\ both[Len(first) + 1] = SP
                        /\ (/\ IsInlineElement(left) /\ HasContent(left)
                            /\ right.kind = "Text" /\ StartsWithSpace(right.text)
                            /\ trim(right.text) # <<>>) =>
                               /\ IsPrefix(first, both)
                               /\ Len(both) > Len(first)
                               /\ both[Len(first) + 1] = SP

-----------------------------------------------------------------------------
\* the block-level elements: lists and every element without an inline rule
IsBlockElement(n) ==
    n.kind = "Element" /\ n.name \notin {"a", "span", "strong", "script", "code"}

\* inline content: a text that is not blank, or an inline element with content
IsInlineContent(n) ==
    \/ n.kind = "Text" /\ trim(n.text) # <<>>
    \/ IsInlineElement(n) /\ HasContent(n)

\* C21: inside one parent, inline content that follows a block-level sibling
\* with content starts after a paragraph break: what the block printed is
\* followed by two new lines, and nothing is appended to its last line.
C21_BreakAfterBlock ==
    pc = "done" =>
        \A i \in 1..Len(GenericElements(html)) :
            LET kids == GenericElements(html)[i].children
            IN  \A k \in 1..(Len(kids) - 1) :
                    (/\ IsBlockElement(kids[k]) /\ HasContent(kids[k])
                     /\ ~HasElementNamed(kids[k], {"code"})
                     /\ IsInlineContent(kids[k + 1])) =>
                        LET both == BlockOutput(<<kids[k], kids[k + 1]>>)
                            first == BlockOutput(<<kids[k]>>)
                        IN  /\ IsPrefix(first, both)
                            /\ Len(both) >= Len(first) + 2
                            /\ SubSeq(both, Len(first) + 1, Len(first) + 2) = <<NL, NL>>

-----------------------------------------------------------------------------
\* some child of the node returns a status other than NotRendered under ctx
SomeChildRendered(n, ctx) ==
    \E i \in 1..Len(n.children) :
        is_rendered(render_node(n.children[i], <<>>, ctx).status)

\* C22: for every node of the document and every context, a call that returns
\* gives NotRendered if and only if it appended nothing, gives Rendered or
\* RenderedRequiresSpace only for a subtree with visible content, and the
\* document gives Rendered iff one of its children gave another status than
\* NotRendered.
C22_StatusTruthful ==
    pc = "done" =>
        /\ \A i \in 1..Len(Dfs(html)) : \A ct \in ContextTypes :
              LET n == Dfs(html)[i]
                  r == render_node(n, <<>>, Context(ct, 0, FALSE))
              IN  ~r.panic =>
                      /\ r.status = "NotRendered" <=> r.res = <<>>
                      /\ is_rendered(r.status) => HasContent(n)
        /\ LET ctx == Context(Inline, 0, FALSE)
           IN  render_node(html, <<>>, ctx).status = "Rendered"
                   <=> SomeChildRendered(html, ctx)

\* the half of C22 that needs no look at the children: a call that returns
\* NotRendered appended nothing
C22_NotRenderedIsSilent ==
    pc = "done" =>
        \A i \in 1..Len(Dfs(html)) : \A ct \in ContextTypes :
            LET r == render_node(Dfs(html)[i], <<>>, Context(ct, 0, FALSE))
            IN  (~r.panic /\ r.status = "NotRendered") => r.res = <<>>

-----------------------------------------------------------------------------
IsIgnoredElement(n) == n.kind = "Element" /\ n.name \in IgnoredTags

\* the letters below ignored elements
RECURSIVE IgnoredLetters(_)
IgnoredLetters(n) ==
    IF IsIgnoredElement(n) THEN DfsLetters(n)
    ELSE Flatten([i \in 1..Len(n.children) |-> IgnoredLetters(n.children[i])])

\* C23: an element named script, head, noscript, img, picture, audio, video
\* or source appends nothing and returns NotRendered under every context, and
\* no text below such an element is in the output of render.
C23_IgnoredTags ==
    pc = "done" =>
        LET ignored == SelectSeq(Dfs(html), IsIgnoredElement)
        IN  /\ \A i \in 1..Len(ignored) : \A ct \in ContextTypes :
                  render_node(ignored[i], <<>>, Context(ct, 0, FALSE))
                      = Ret(<<>>, "NotRendered")
            /\ \A i \in 1..Len(IgnoredLetters(html)) : ~InSeq(IgnoredLetters(html)[i], out)

\* C23 for the one tag with a rule of its own: a script element appends
\* nothing and returns NotRendered, and no text below it is in the output
C23_ScriptIgnored ==
    pc = "done" =>
        LET scripts == SelectSeq(Dfs(html), LAMBDA n : n.kind = "Element" /\ n.name = "script")
        IN  \A i \in 1..Len(scripts) :
                /\ \A ct \in ContextTypes :
                      render_node(scripts[i], <<>>, Context(ct, 0, FALSE))
                          = Ret(<<>>, "NotRendered")
                /\ \A k \in 1..Len(DfsLetters(scripts[i])) :
                      ~InSeq(DfsLetters(scripts[i])[k], out)

-----------------------------------------------------------------------------
IsSpanOrButton(n) == n.kind = "Element" /\ n.name \in {"span", "button"}

\* C24: under RequiresSpace a span or button whose subtree renders something
\* is preceded by one space, unless the first character the subtree renders
\* is '.', ',' or ';', in which case nothing precedes it.
C24_SpanLookahead ==
    pc = "done" =>
        \A i \in 1..Len(Dfs(html)) :
            LET e == Dfs(html)[i]
                inl == render_node(e, <<>>, Context(Inline, 0, FALSE))
                rs == render_node(e, <<>>, Context(RequiresSpace, 0, FALSE))
            IN  (IsSpanOrButton(e) /\ ~inl.panic /\ inl.res # <<>>) =>
                    rs.res = (IF inl.res[1] \in Punct THEN <<>> ELSE <<SP>>) \o inl.res

\* the part of C24 for content that does not start with punctuation: a span
\* under RequiresSpace is preceded by one space
C24_SpanSpace ==
    pc = "done" =>
        \A i \in 1..Len(Dfs(html)) :
            LET e == Dfs(html)[i]
                inl == render_node(e, <<>>, Context(Inline, 0, FALSE))
                rs == render_node(e, <<>>, Context(RequiresSpace, 0, FALSE))
            IN  (/\ e.kind = "Element" /\ e.name = "span"
                 /\ ~inl.panic /\ inl.res # <<>> /\ inl.res[1] \notin Punct) =>
                    rs.res = <<SP>> \o inl.res

-----------------------------------------------------------------------------
IsInlineCode(n) == n.kind = "Element" /\ n.name = "code" /\ ~is_block(n)

\* C25: a code element outside pre that has children renders, under Inline,
\* as the space of the merged RequiresSpace, a backtick, the rendering of all
\* its children in order, and a backtick.
C25_InlineCodeComplete ==
    pc # "idle" =>
        \A i \in 1..Len(Dfs(html)) :
            LET e == Dfs(html)[i]
                ctx == Context(Inline, 0, FALSE)
                all == render_children(e.children, <<>>, ctx)
            IN  (IsInlineCode(e) /\ e.children # <<>> /\ ~all.panic) =>
                    render_node(e, <<>>, ctx)
                        = Ret(<<SP, BT>> \o all.res \o <<BT>>, "RenderedRequiresSpace")

\* C25 for a code element outside pre with one child: space, backtick, the
\* child, backtick
C25_OneChild ==
    pc # "idle" =>
        \A i \in 1..Len(Dfs(html)) :
            LET e == Dfs(html)[i]
                ctx == Context(Inline, 0, FALSE)
                all == render_children(e.children, <<>>, ctx)
            IN  (IsInlineCode(e) /\ Len(e.children) = 1 /\ ~all.panic) =>
                    render_node(e, <<>>, ctx)
                        = Ret(<<SP, BT>> \o all.res \o <<BT>>, "RenderedRequiresSpace")

-----------------------------------------------------------------------------
IsList(n) == n.kind = "Element" /\ n.name \in {"ul", "ol"}

\* a list with no list and no code below it
IsFlatList(n) ==
    /\ IsList(n)
    /\ \A i \in 1..Len(n.children) : ~HasElementNamed(n.children[i], {"ul", "ol", "code"})

RECURSIVE LeadingSpaces(_)
LeadingSpaces(line) ==
    IF line # <<>> /\ Head(line) = SP THEN 1 + LeadingSpaces(Tail(line)) ELSE 0

IsBlank(line) == LeadingSpaces(line) = Len(line)

\* a line that starts, after its indentation, with "- " or with an ordinal
IsBulletLine(line) ==
    LET rest == SubSeq(line, LeadingSpaces(line) + 1, Len(line))
    IN  \/ IsPrefix(<<"-", SP>>, rest)
        \/ Len(rest) >= 3 /\ IsDigit(rest[1]) /\ rest[2] = "." /\ rest[3] = SP

\* the list nesting depths the claims are tried at
Depths == {1, 2}

\* the lines a list at nesting depth d prints
ListLines(e, d) == Lines(render_node(e, <<>>, Context(Inline, 2 * (d - 1), FALSE)).res)

\* C26: in the lines of a list at nesting depth d, a bullet or ordinal line
\* starts with exactly 2*d columns of indentation and every other line of an
\* item that has content with 2*(d+1) columns; and what a block prints after
\* a list of its own has ended is indented like the block, by 2*(d-1) columns.
C26_Indentation ==
    pc = "done" =>
        \A d \in Depths :
            /\ \A i \in 1..Len(Dfs(html)) :
                  IsFlatList(Dfs(html)[i]) =>
                      \A k \in 1..Len(ListLines(Dfs(html)[i], d)) :
                          LET line == ListLines(Dfs(html)[i], d)[k]
                          IN  \/ IsBlank(line)
                              \/ IsBulletLine(line) /\ LeadingSpaces(line) = 2 * d
                              \/ ~IsBulletLine(line) /\ LeadingSpaces(line) = 2 * (d + 1)
            /\ \A i \in 1..Len(GenericElements(html)) :
                  LET kids == GenericElements(html)[i].children
                      ctx == Context(NewParagraph, 2 * (d - 1), FALSE)
                  IN  \A k \in 1..(Len(kids) - 1) :
                          (/\ IsFlatList(kids[k]) /\ HasContent(kids[k])
                           /\ IsGenericElement(kids[k + 1]) /\ BlocksOnly(kids[k + 1])
                           /\ HasContent(kids[k + 1])) =>
                              LET first == render_node(Elem("div", <<kids[k]>>), <<>>, ctx).res
                                  both == render_node(Elem("div", <<kids[k], kids[k + 1]>>),
                                                      <<>>, ctx).res
                                  after == Lines(SubSeq(both, Len(first) + 1, Len(both)))
                              IN  /\ IsPrefix(first, both)
                                  /\ \A m \in 1..Len(after) :
                                        IsBlank(after[m]) \/ LeadingSpaces(after[m]) = 2 * (d - 1)

\* C26 without the lines that follow the bullet line inside an item: bullet
\* and ordinal lines start with exactly 2*d columns, and what a block prints
\* after a list of its own is indented like the block.
C26_BulletIndentation ==
    pc = "done" =>
        \A d \in Depths :
            /\ \A i \in 1..Len(Dfs(html)) :
                  IsFlatList(Dfs(html)[i]) =>
                      \A k \in 1..Len(ListLines(Dfs(html)[i], d)) :
                          LET line == ListLines(Dfs(html)[i], d)[k]
                          IN  IsBulletLine(line) => LeadingSpaces(line) = 2 * d
            /\ \A i \in 1..Len(GenericElements(html)) :
                  LET kids == GenericElements(html)[i].children
                      ctx == Context(NewParagraph, 2 * (d - 1), FALSE)
                  IN  \A k \in 1..(Len(kids) - 1) :
                          (/\ IsFlatList(kids[k]) /\ HasContent(kids[k])
                           /\ IsGenericElement(kids[k + 1]) /\ BlocksOnly(kids[k + 1])
                           /\ HasContent(kids[k + 1])) =>
                              LET first == render_node(Elem("div", <<kids[k]>>), <<>>, ctx).res
                                  both == render_node(Elem("div", <<kids[k], kids[k + 1]>>),
                                                      <<>>, ctx).res
                                  after == Lines(SubSeq(both, Len(first) + 1, Len(both)))
                              IN  /\ IsPrefix(first, both)
                                  /\ \A m \in 1..Len(after) :
                                        IsBlank(after[m]) \/ LeadingSpaces(after[m]) = 2 * (d - 1)

-----------------------------------------------------------------------------
IsBlockCode(n) == n.kind = "Element" /\ n.name = "code" /\ is_block(n)

\* the pieces of a text between its line breaks, the first being what is
\* appended to the line the text starts on
Pieces(s) == SplitAt(s, {NL}, <<>>, <<>>)

HasFence(line) == InSeq(BT, line)

\* a line that holds a fence and nothing else but its indentation
IsFenceLine(line) == line = spaces(LeadingSpaces(line)) \o Fence

\* in the text: nothing of a fence is appended to the line the text starts
\* on, every line that holds a fence holds nothing else, and there are an
\* opening and a closing one
FencesStandAlone(s) ==
    /\ ~HasFence(Pieces(s)[1])
    /\ \A k \in 2..Len(Pieces(s)) : HasFence(Pieces(s)[k]) => IsFenceLine(Pieces(s)[k])
    /\ Len(SelectSeq(Pieces(s), HasFence)) = 2

\* a block in which the code block e meets the modifier ct and is followed by
\* the text b
FollowedByText(e, ct) ==
    CASE ct.tag = "Inline" ->
            Elem("div", <<Elem("pre", <<Text(<<"c">>), e>>), Text(<<"b">>)>>)
      [] ct.tag = "RequiresSpace" ->
            Elem("div", <<Elem("pre", <<Elem("span", <<Text(<<"c">>)>>), e>>), Text(<<"b">>)>>)
      [] ct.tag = "NewParagraph" ->
            Elem("div", <<Elem("pre", <<e>>), Text(<<"b">>)>>)
      [] ct.tag = "UnorderedList" ->
            Elem("ul", <<Elem("li", <<Elem("pre", <<e>>), Text(<<"b">>)>>)>>)
      [] ct.tag = "OrderedList" ->
            Elem("ol", <<Elem("li", <<Elem("pre", <<e>>), Text(<<"b">>)>>)>>)

\* C27: a code element inside pre whose children are text prints, under the
\* modifiers cts, its opening fence alone at the beginning of a line, its
\* content from the following line on and its closing fence alone at the
\* beginning of a line, also when text follows the block in the document.
FencesAlone(cts) ==
    \A i \in 1..Len(Dfs(html)) : \A ct \in cts :
        LET e == Dfs(html)[i]
        IN  (IsBlockCode(e) /\ \A k \in 1..Len(e.children) : e.children[k].kind = "Text") =>
                /\ FencesStandAlone(render_node(e, <<>>, Context(ct, 0, FALSE)).res)
                /\ FencesStandAlone(render_node(FollowedByText(e, ct), <<>>,
                                                Context(Inline, 0, FALSE)).res)

\* C27: the fences of a code block stand alone under every incoming modifier.
C27_FencesStandAlone == pc = "done" => FencesAlone(ContextTypes)

\* C27 under the modifiers Inline and RequiresSpace
C27_FencesAfterInline == pc = "done" => FencesAlone({Inline, RequiresSpace})

-----------------------------------------------------------------------------
\* The Renderer state of render(&raw_text, max_width, true), the call of
\* ContentStateData::recalculate_render_cache: an ordered sequence of lines,
\* each an ordered sequence of spans, and the running width of the last line.

TAB_SIZE == 2

Span(text, style) == [text |-> text, style |-> style]

\* the state at the start of a call: exactly one empty line
Renderer_new(width) == [lines |-> <<<<>>>>, last_line_width |-> 0, max_width |-> width]

\* columns of indentation: the indent of the Context, one level more inside
\* a list
indent_columns(indent, inside_list) ==
    (indent + (IF inside_list THEN 1 ELSE 0)) * TAB_SIZE

\* a variant that starts the new line without counting its indentation
Renderer_new_line_width_zero(r, indent, inside_list) ==
    [r EXCEPT !.lines = Append(@, IF indent_columns(indent, inside_list) = 0 THEN <<>>
                                  ELSE <<Span(spaces(indent_columns(indent, inside_list)),
                                              "Default")>>),
              !.last_line_width = 0]

\* start a new output line: its leading white space counts towards the width
Renderer_new_line(r, indent, inside_list) ==
    [r EXCEPT !.lines = Append(@, IF indent_columns(indent, inside_list) = 0 THEN <<>>
                                  ELSE <<Span(spaces(indent_columns(indent, inside_list)),
                                              "Default")>>),
              !.last_line_width = indent_columns(indent, inside_list)]

\* append a span to the last line
Renderer_push(r, text, style) ==
    [r EXCEPT !.lines[Len(r.lines)] = Append(@, Span(text, style)),
              !.last_line_width = @ + Width(text)]

\* what one call may emit
Styles == {"Default", "Code"}
Fragments == Texts \cup {<<"-", SP>>, <<"*", "*">>}
IndentLevels == {0, 1, 2}

\* lines started and spans pushed by the call so far
RECURSIVE SpanCount(_)
SpanCount(lines) == IF lines = <<>> THEN 0 ELSE Len(Head(lines)) + SpanCount(Tail(lines))
Emitted(r) == (Len(r.lines) - 1) + SpanCount(r.lines)

InitRenderer ==
    /\ html = ParseDocument(<<>>)
    /\ max_width \in Widths
    /\ pc = "idle"
    /\ out = <<>>
    /\ calls = 0
    /\ first_run = <<>>
    /\ renderer = None
    /\ AppAtRest

\* render is called
RendererStart ==
    /\ pc = "idle"
    /\ renderer = None
    /\ renderer' = Some(Renderer_new(max_width))
    /\ pc' = "rendering"
    /\ calls' = calls + 1
    /\ UNCHANGED <<html, max_width, out, first_run>>
    /\ UNCHANGED appvars

\* the walk starts a new line
RendererNewLine ==
    /\ pc = "rendering"
    /\ Emitted(renderer[1]) < MaxOps
    /\ \E indent \in IndentLevels : \E inside_list \in BOOLEAN :
          renderer' = Some(Renderer_new_line(renderer[1], indent, inside_list))
    /\ UNCHANGED <<html, max_width, pc, out, calls, first_run>>
    /\ UNCHANGED appvars

\* the walk emits a fragment
RendererPush ==
    /\ pc = "rendering"
    /\ Emitted(renderer[1]) < MaxOps
    /\ \E text \in Fragments : \E style \in Styles :
          renderer' = Some(Renderer_push(renderer[1], text, style))
    /\ UNCHANGED <<html, max_width, pc, out, calls, first_run>>
    /\ UNCHANGED appvars

\* render returns the lines
RendererReturn ==
    /\ pc = "rendering"
    /\ pc' = "done"
    /\ UNCHANGED <<html, max_width, out, calls, first_run, renderer>>
    /\ UNCHANGED appvars

NextRenderer == RendererStart \/ RendererNewLine \/ RendererPush \/ RendererReturn

SpecRenderer == InitRenderer /\ [][NextRenderer]_vars

\* the display width of a line: that of its spans
RECURSIVE LineWidth(_)
LineWidth(line) ==
    IF line = <<>> THEN 0 ELSE Width(Head(line).text) + LineWidth(Tail(line))

-----------------------------------------------------------------------------
Panes == {"ItemList", "Content"}

\* C29 for a Back key at the head of the bus while the help is open: r is
\* what handle_event gives for the App a
C29_Back(a, r) ==
    a.focus = "Help" =>
        /\ ~r.panic
        /\ ~r.app.help.open
        /\ r.app.focus \in Panes
        /\ Some(r.app.focus) = a.prev_focus

\* C29: whenever the focus is Help, prev_focus holds a pane, ItemList or
\* Content and never Help, and a Back key then closes the help and gives the
\* focus back to that pane.
C29_PrevFocus ==
    /\ focus = "Help" => prev_focus \in {Some(p) : p \in Panes}
    /\ (run.pc = "next" /\ event_bus # <<>> /\ Head(event_bus) = Keyboard("Back")) =>
           C29_Back(AppState,
                    App_handle_event([AppState EXCEPT !.event_bus = Tail(event_bus)],
                                     Head(event_bus), None))

\* C29 when the help is opened from a pane: the Help key stores the pane
\* that was focused
C29_OpenedFromPane ==
    (run.pc = "next" /\ event_bus # <<>> /\ Head(event_bus) = Keyboard("Help")
     /\ focus \in Panes) =>
        LET r == App_handle_event([AppState EXCEPT !.event_bus = Tail(event_bus)],
                                  Head(event_bus), None)
        IN  /\ r.app.focus = "Help" /\ r.app.help.open
            /\ r.app.prev_focus = Some(focus)

-----------------------------------------------------------------------------
IsStart(e) == e.type = "StartLoadingItem"
IsLoaded(e) == e.type = "LoadedItem"

\* the loads whose LoadedItem the loop has not received yet
Outstanding == Len(tasks.loads) + Len(SelectSeq(event_bus, IsLoaded))

\* the StartLoadingItem events waiting in the bus from position j on
StartsFrom(j) == Len(SelectSeq(SubSeq(event_bus, j, Len(event_bus)), IsStart))

\* the LoadedItem events waiting in the bus ahead of position j
LoadedBefore(j) == Len(SelectSeq(SubSeq(event_bus, 1, j - 1), IsLoaded))

\* C30: the loads whose StartLoadingItem still waits in the bus are the ones
\* spawned last, so no LoadedItem of theirs waits ahead of it: ahead of a
\* waiting StartLoadingItem there are at most as many LoadedItem events as
\* there are older loads outstanding; and while the loop runs and no load and
\* no load event is outstanding, Content is not in Loading.
C30_LoadOrder ==
    Running =>
        /\ \A j \in 1..Len(event_bus) :
              IsStart(event_bus[j]) => LoadedBefore(j) + StartsFrom(j) <= Outstanding
        /\ (tasks.loads = <<>> /\ \A j \in 1..Len(event_bus) :
                                      ~IsStart(event_bus[j]) /\ ~IsLoaded(event_bus[j])) =>
               content.state.tag # "Loading"

-----------------------------------------------------------------------------
\* Selecting one item after another

MaxSelectKeys == 5   \* keys pressed in one behaviour of SpecSelect

\* the keys that select an item, open it and go back to the list
SelectKeys == {"Down", "Enter", "Left"}

SendSelectKey ==
    /\ Running
    /\ tasks.keys < MaxSelectKeys
    /\ Len(event_bus) < MaxQueue
    /\ \E key \in SelectKeys :
          event_bus' = send(event_bus, Keyboard(key))
    /\ tasks' = [tasks EXCEPT !.keys = @ + 1]
    /\ UNCHANGED data_loader
    /\ UNCHANGED_by_tasks

NextSelect ==
    \/ HandleEvent
    \/ Draw
    \/ SendSelectKey
    \/ LoadDone

\* the application with these keys, every load's StartLoadingItem sent before
\* its LoadedItem, and the refresh task not yet scheduled
SpecSelect == InitApp /\ [][NextSelect]_vars

\* no load is in flight and no event of a load waits in the bus
LoadsSettled ==
    /\ tasks.loads = <<>>
    /\ \A j \in 1..Len(event_bus) : ~IsStart(event_bus[j]) /\ ~IsLoaded(event_bus[j])

\* C31: once every load spawned by Enter has ended and its events are handled,
\* Content holds the text load_item gave for the item entered last (the
\* article, or the failure text), never the text of an item entered before it.
C31_LatestSelectionWins ==
    (Running /\ tasks.entered # None /\ LoadsSettled)
        => /\ content.state.tag = "Data"
           /\ content.state.raw_text \in {tasks.entered[1], FailedLoading}

-----------------------------------------------------------------------------
\* Claims about the read marks and the selection

\* whether the loop is about to take a key whose handler reads the selected
\* item under the data lock, drops the lock and calls set_read
KeyWithSetRead ==
    /\ run.pc = "next"
    /\ event_bus # <<>>
    /\ reaches_set_read(AppState, Head(event_bus))

\* the flag that handler passes to set_read
FlagWritten == IF Head(event_bus) = Keyboard("Space") THEN ~SelectedItem.read ELSE TRUE

\* C32: when Enter, Space or Open reads the selected item under the data lock
\* and then calls set_read(selected, ..), the index is still within the items
\* (set_read returns) and the item at that index is the item that was read
\* under the lock, now with the flag the handler passed, whether or not the
\* refresh task stores its items meanwhile.
C32_ReadMarkHitsSelected ==
    [][(KeyWithSetRead /\ run'.pc # "next") =>
          /\ run'.pc # "panicked"
          /\ item_list.selected[1] < Len(data_loader'.items)
          /\ data_loader'.items[item_list.selected[1] + 1].id = SelectedItem.id
          /\ data_loader'.items[item_list.selected[1] + 1].read = FlagWritten]_vars

\* whether the loop is about to take an Enter, Space or Open key that ItemList
\* handles with a selection present
KeyOnSelection ==
    /\ run.pc = "next"
    /\ event_bus # <<>>
    /\ \/ Head(event_bus) = Keyboard("Open") /\ ~item_list.config.disable_browser_open
       \/ Head(event_bus) \in {Keyboard("Enter"), Keyboard("Space")} /\ item_list.focused
    /\ item_list.selected # None
    /\ ~data_loader.poisoned

\* C33: whenever ItemList handles Enter, Space or Open with a selection
\* present, the selected index is smaller than the number of items of the
\* loader, so data.items[selected] is an item.
C33_SelectionInRange ==
    KeyOnSelection => item_list.selected[1] < Len(data_loader.items)

-----------------------------------------------------------------------------
\* Claims about the focus

\* the focus, the flags of the components and the help agree in the App a
FocusConsistent(a) ==
    /\ a.item_list.focused <=> a.focus = "ItemList"
    /\ a.content.focused <=> a.focus = "Content"
    /\ a.help.open <=> a.focus = "Help"

\* the events whose focus arm moves between the item list and the content
PaneEvents == {Keyboard("Left"), Keyboard("Right"), StartLoadingItem}

\* what the focus arm of such an event does to the App a, r being what
\* handle_event gives: nothing while the help is open, else a move between
\* the two panes that leaves prev_focus and the help alone
C34_PaneMove(a, r) ==
    /\ ~r.panic
    /\ FocusConsistent(r.app)
    /\ r.app.prev_focus = a.prev_focus
    /\ IF a.focus = "Help"
       THEN /\ r.app.focus = "Help"
            /\ r.returned.focus = "Ignored"
       ELSE r.app.focus \in Panes

\* C34: in every state of the application item_list.focused holds iff focus
\* is ItemList, content.focused iff focus is Content and the help is open iff
\* focus is Help; and Left, Right and StartLoadingItem, handled in any such
\* state, move the focus only between ItemList and Content and leave it alone
\* while the help is open.
C34_FocusConsistency ==
    /\ FocusConsistent(AppState)
    /\ Running =>
          \A event \in PaneEvents :
              C34_PaneMove(AppState, App_handle_event(AppState, event, None))

\* the help is open and Left or Right is the next event of the loop
C34_Witness ==
    /\ run.pc = "next"
    /\ focus = "Help"
    /\ help.open
    /\ event_bus # <<>>
    /\ Head(event_bus) \in {Keyboard("Left"), Keyboard("Right")}

-----------------------------------------------------------------------------
\* Claims about refresh

\* the item without its read mark
Unmarked(it) == [it EXCEPT !.read = FALSE]

\* how often the item, whatever its mark, is in the items
Copies(items, it) ==
    Cardinality({j \in 1..Len(items) : Unmarked(items[j]) = Unmarked(it)})

\* the items are those of the feed, in some order, whatever their marks
SameItems(items, feed) ==
    /\ Len(items) = Len(feed)
    /\ \A i \in 1..Len(feed) : Copies(items, feed[i]) = Copies(feed, feed[i])

\* latest first
Descending(items) ==
    \A i \in 1..Len(items) : \A j \in 1..Len(items) :
        i < j => items[i].pub_date >= items[j].pub_date

\* a step of SpecLoader in which loader.refresh() stores and returns
RefreshReturns ==
    /\ tasks.refresh = "fetching"
    /\ tasks'.refresh = "done"
    /\ ~data_loader'.poisoned

\* C35: when a refresh stores, the items afterwards are the fetched items,
\* latest pub_date first, and each is marked read iff an item of the same id
\* was marked read in the data just before, whatever set_read calls ended
\* while the fetch was in flight.
C35_RefreshKeepsRead ==
    [][RefreshReturns =>
          /\ \E feed \in Feeds : SameItems(data_loader'.items, feed)
          /\ Descending(data_loader'.items)
          /\ \A i \in 1..Len(data_loader'.items) :
                data_loader'.items[i].read <=>
                   read_of(data_loader.items, data_loader'.items[i].id)]_vars

\* the refresh has stored the three fetched items, and x, marked read by a
\* set_read that ended during the fetch, is still marked
C35_Witness ==
    /\ tasks.refresh = "done"
    /\ tasks.keys > 0
    /\ ~data_loader.poisoned
    /\ Len(data_loader.items) = 3
    /\ read_of(data_loader.items, "x")

\* C36: when the fetch of a channel fails, whatever the other channels gave,
\* refresh returns RefreshStatus::Error and leaves the items, their read
\* marks, the channels and the version as they were, and the task of App::new
\* then sends the Error toast and nothing else.
C36_RefreshFailure ==
    [][/\ (Running /\ tasks.refresh = "fetching") =>
             \A res \in FailedFetches :
                 refresh(data_loader, res) = RefreshRet("Error", LoaderRet(data_loader))
       /\ (tasks.refresh = "fetching" /\ tasks'.refresh = "failed") =>
             /\ data_loader' = data_loader
             /\ event_bus' = event_bus
       /\ (tasks.refresh = "failed" /\ tasks'.refresh # "failed") =>
             /\ tasks'.refresh = "done"
             /\ data_loader' = data_loader
             /\ event_bus' = Append(event_bus, ToastEvent("Error"))]_vars

\* the refresh has failed over items read from disk, and its Error toast
\* waits in the bus
C36_Witness ==
    /\ tasks.refresh = "done"
    /\ data_loader.items # <<>>
    /\ data_loader.version = 0
    /\ event_bus # <<>>
    /\ event_bus[Len(event_bus)] = ToastEvent("Error")

====
